---- MODULE Spec2Model ----
(***************************************************************************)
(* Queue distribution core of wazo_call_distributor: the member registry,  *)
(* the six selection strategies, the DistributionService entry points and  *)
(* the Redis round-robin cursor.                                           *)
(***************************************************************************)
EXTENDS Integers, Sequences, FiniteSets, TLC

(* ---------------------------- bounds ----------------------------------- *)
MaxMembers == 3
MaxPenalty == 1
MaxProcs == 2
MaxUpdates == 2
MaxDuration == 2
MaxCalls == 4
AgentBase == 10
MaxLevel == 1
MaxClock == 3
MaxEvents == 3
MaxCallIds == 2
MaxAttempts == 2
MaxInterval == 1
MaxDeliveries == 4

MemberIds == 1..MaxMembers
ForeignMember == MaxMembers + 1
AllMembers == MemberIds \cup {ForeignMember}
Penalties == 0..MaxPenalty
Procs == 1..MaxProcs
Durations == 1..MaxDuration
QueueIds == 1..3
MissingQueue == CHOOSE q \in QueueIds : \A r \in QueueIds : r <= q
Tenants == {"t1", "t2"}

(* strategies/__init__.py: the registered engines *)
STRATEGY_MAPPING == {"ringall", "leastrecent", "fewestcalls", "random", "rrmemory", "linear"}

VARIABLES
    queues,        \* call_distributor_queues: id -> [exists, tenant_uuid, strategy]
    members,       \* call_distributor_queue_members: id -> [queue_id, penalty, is_available, paused]
    row_order,     \* order in which the unordered SELECT yields the member rows (fixed while no row is added)
    redis,         \* queue id -> value stored under "queue:<id>:rr_position"
    proc,          \* per request: position in its handler and the handler's locals
    result,        \* per request: what the handler returned or raised
    stats_calls,   \* history: per id, the update_member_stats calls made (count, summed duration, index of the latest)
    distribution_log, \* history: the agent ids handed to log_distribution, in call order
    failover_configs, \* call_distributor_failover_configs: id -> row
    metrics_rows,     \* call_distributor_queue_metrics: per queue, its latest row
    failover_result,  \* what the latest ReliabilityService call returned or raised
    events,           \* call_distributor_events: the committed rows, in commit order
    channels,         \* history: per <<channel, event id>>, the redis.publish calls made
    queue_metrics,    \* redis hash "queue_metrics:<id>"
    agent_metrics,    \* redis hash "agent_metrics:<id>"
    recorder,         \* per record_event call: position in the handler and the event in hand
    overflow,         \* call_distributor_queues.overflow_queue_id, per queue id
    foreign_keys,     \* whether the engine behind db_connection enforces foreign keys
    queue_seq,        \* the last id the queues table's primary key handed out
    queue_result,     \* what the latest QueueService call returned or raised
    reader,           \* the get_realtime_queue_metrics call: position in the handler, its queue
    webhook,          \* call_distributor_webhooks: the one webhook row
    deliveries,       \* call_distributor_webhook_deliveries: the rows, by id
    webhook_result,   \* what the latest IntegrationService call returned
    callback_requests, \* call_distributor_callback_requests: id -> row
    callback_result,  \* what the latest CallbackService call returned or raised
    callback_schedule, \* call_distributor_callback_schedules: the enabled schedule of queue 1, if any
    utcnow            \* datetime.utcnow() as the webhook and callback services read it

distribution == <<queues, members, row_order, redis, proc, result, stats_calls, distribution_log>>

reliability == <<failover_configs, metrics_rows, failover_result>>

pipeline == <<events, channels, queue_metrics, agent_metrics, recorder>>

management == <<overflow, foreign_keys, queue_seq, queue_result>>

outreach == <<webhook, deliveries, webhook_result, callback_requests, callback_result, callback_schedule, utcnow>>

services == <<management, reader, outreach>>

vars == <<distribution, reliability, pipeline, services>>

(* ---------------------------- helpers ---------------------------------- *)
Range(s) == {s[i] : i \in 1..Len(s)}

(* QueueMember.agent: the agent row a member row points to *)
agent_id(m) == AgentBase + m

MemberOfAgent(a) == a - AgentBase

(* Python value None, as held in a stats dictionary *)
None == -1

(* BaseStrategy.get_member_stats: a constant dictionary *)
get_member_stats(member_id) ==
    [last_call_time |-> None, calls_taken |-> 0, total_talk_time |-> 0, average_talk_time |-> 0]

(* BaseStrategy.get_available_members: the filtered query, rows in table order *)
Eligible_IgnorePaused(q, m) ==
    /\ members[m].queue_id = q
    /\ members[m].is_available = TRUE

Eligible(q, m) ==
    /\ members[m].queue_id = q
    /\ members[m].is_available = TRUE
    /\ members[m].paused = FALSE

get_available_members(q) == SelectSeq(row_order, LAMBDA m : Eligible(q, m))

(* lexicographic order on equal-length integer tuples (Python tuple compare) *)
RECURSIVE TupleLess(_, _)
TupleLess(a, b) ==
    IF Len(a) = 0 \/ Len(b) = 0 THEN Len(a) < Len(b)
    ELSE IF a[1] # b[1] THEN a[1] < b[1]
    ELSE TupleLess(Tail(a), Tail(b))

(* list.sort(key=...): stable, ascending; key maps an element to a tuple *)
RECURSIVE InsertStable(_, _, _)
InsertStable(sorted, x, key) ==
    IF Len(sorted) = 0 THEN <<x>>
    ELSE IF TupleLess(key[x], key[sorted[1]]) THEN <<x>> \o sorted
    ELSE <<sorted[1]>> \o InsertStable(Tail(sorted), x, key)

RECURSIVE SortStable(_, _)
SortStable(s, key) ==
    IF Len(s) = 0 THEN <<>>
    ELSE InsertStable(SortStable(SubSeq(s, 1, Len(s) - 1), key), s[Len(s)], key)

PenaltyKey == [m \in AllMembers |-> <<members[m].penalty>>]

(* the pre-filter shared by leastrecent, fewestcalls, random, linear, rrmemory:
   members.sort(key=penalty); lowest = members[0].penalty; keep penalty == lowest *)
LowestPenaltyMembers_Unfiltered(ms) == SortStable(ms, PenaltyKey)

LowestPenaltyMembers(ms) ==
    LET sorted == SortStable(ms, PenaltyKey)
        lowest_penalty == members[sorted[1]].penalty
    IN  SelectSeq(sorted, LAMBDA m : members[m].penalty = lowest_penalty)

(* ---------------------------- results ---------------------------------- *)
NoStats == [last_call_time |-> None, calls_taken |-> None, total_talk_time |-> None, average_talk_time |-> None]

Idle == [kind |-> "idle", proc |-> 0, queue_id |-> 0, agents |-> <<>>, stats |-> NoStats]

Response(p, q, k, as) == [kind |-> k, proc |-> p, queue_id |-> q, agents |-> as, stats |-> NoStats]

Agents(ms) == [i \in 1..Len(ms) |-> agent_id(ms[i])]

IdleProc == [pc |-> "idle", queue_id |-> 0, next_position |-> 0, selected_member |-> 0]

(* ---------------------------- strategies ------------------------------- *)
(* RingAllStrategy.get_next_agent *)
RingAll_EveryGroup(q) ==
    LET ms == get_available_members(q)
    IN  IF Len(ms) = 0 THEN {<<"None", <<>> >>}
        ELSE {<<"list", Agents(SortStable(ms, PenaltyKey))>>}

RingAll(q) ==
    LET ms == get_available_members(q)
        sorted == SortStable(ms, PenaltyKey)
        keys == {members[m].penalty : m \in Range(sorted)}
        penalty_groups == [k \in keys |-> Agents(SelectSeq(sorted, LAMBDA m : members[m].penalty = k))]
        lowest_penalty == CHOOSE k \in keys : \A j \in keys : k <= j
    IN  IF Len(ms) = 0 THEN {<<"None", <<>> >>}
        ELSE {<<"list", penalty_groups[lowest_penalty]>>}

(* LeastRecentStrategy.get_next_agent; sort key (x[1] is not None, x[1] or 0) *)
LastCallKey ==
    [m \in AllMembers |->
        LET t == get_member_stats(m).last_call_time
        IN  <<IF t # None THEN 1 ELSE 0, IF t = None \/ t = 0 THEN 0 ELSE t>>]

LeastRecent(q) ==
    LET ms == get_available_members(q)
        member_stats == SortStable(LowestPenaltyMembers(ms), LastCallKey)
    IN  IF Len(ms) = 0 THEN {<<"None", <<>> >>}
        ELSE {<<"agent", <<agent_id(member_stats[1])>> >>}

(* FewestCallsStrategy.get_next_agent *)
CallsTakenKey == [m \in AllMembers |-> <<get_member_stats(m).calls_taken>>]

FewestCalls_NoEmptyCheck(q) ==
    LET ms == get_available_members(q)
        member_stats == SortStable(LowestPenaltyMembers(ms), CallsTakenKey)
    IN  IF Len(ms) = 0 THEN {<<"IndexError", <<>> >>}
        ELSE {<<"agent", <<agent_id(member_stats[1])>> >>}

FewestCalls(q) ==
    LET ms == get_available_members(q)
        member_stats == SortStable(LowestPenaltyMembers(ms), CallsTakenKey)
    IN  IF Len(ms) = 0 THEN {<<"None", <<>> >>}
        ELSE {<<"agent", <<agent_id(member_stats[1])>> >>}

(* RandomStrategy.get_next_agent; random.choice is any element *)
Random(q) ==
    LET ms == get_available_members(q)
    IN  IF Len(ms) = 0 THEN {<<"None", <<>> >>}
        ELSE {<<"agent", <<agent_id(m)>> >> : m \in Range(LowestPenaltyMembers(ms))}

(* LinearStrategy.get_next_agent *)
IdKey == [m \in AllMembers |-> <<m>>]

Linear_TableOrder(q) ==
    LET ms == get_available_members(q)
        tier == LowestPenaltyMembers(ms)
    IN  IF Len(ms) = 0 THEN {<<"None", <<>> >>}
        ELSE {<<"agent", <<agent_id(tier[1])>> >>}

Linear(q) ==
    LET ms == get_available_members(q)
        by_id == SortStable(LowestPenaltyMembers(ms), IdKey)
    IN  IF Len(ms) = 0 THEN {<<"None", <<>> >>}
        ELSE {<<"agent", <<agent_id(by_id[1])>> >>}

(* the outcomes of the single-step strategies, by name *)
Select(strategy, q) ==
    CASE strategy = "ringall" -> RingAll(q)
      [] strategy = "leastrecent" -> LeastRecent(q)
      [] strategy = "fewestcalls" -> FewestCalls(q)
      [] strategy = "random" -> Random(q)
      [] strategy = "linear" -> Linear(q)

(* ---------------------------- Redis values ----------------------------- *)
(* redis.set(key, n) stores the decimal text of n; redis.get yields it, or None *)
RECURSIVE ToBytes(_)
ToBytes(n) == IF n < 10 THEN <<n>> ELSE ToBytes(n \div 10) \o <<n % 10>>

RECURSIVE ParseInt(_)
ParseInt(b) == IF Len(b) = 0 THEN 0 ELSE 10 * ParseInt(SubSeq(b, 1, Len(b) - 1)) + b[Len(b)]

Missing == [exists |-> FALSE, value |-> <<>>]

Stored(n) == [exists |-> TRUE, value |-> ToBytes(n)]

(* int(self.redis.get(redis_key) or -1) *)
ReadPosition_ZeroIsUnset(v) ==
    IF ~v.exists \/ Len(v.value) = 0 \/ ParseInt(v.value) = 0 THEN -1 ELSE ParseInt(v.value)

ReadPosition(v) == IF ~v.exists \/ Len(v.value) = 0 THEN -1 ELSE ParseInt(v.value)

(* ---------------------------- DistributionService ---------------------- *)
(* session.query(Queue).filter(id == queue_id, tenant_uuid == tenant_uuid).first() *)
QueueFound(queue_id, tenant_uuid) ==
    /\ queues[queue_id].exists
    /\ queues[queue_id].tenant_uuid = tenant_uuid

StrategyOf(q) == queues[q].strategy

(* get_next_agents, the two rejections *)
GetNextAgentsFail_StrategyFirst(p, queue_id, tenant_uuid) ==
    /\ result = Idle
    /\ proc[p].pc = "idle"
    /\ \/ /\ queues[queue_id].exists
          /\ queues[queue_id].strategy \notin STRATEGY_MAPPING
          /\ result' = Response(p, queue_id, "InvalidQueueStrategy", <<>>)
       \/ /\ ~QueueFound(queue_id, tenant_uuid)
          /\ ~(queues[queue_id].exists /\ queues[queue_id].strategy \notin STRATEGY_MAPPING)
          /\ result' = Response(p, queue_id, "QueueNotFound", <<>>)
    /\ UNCHANGED <<reliability, pipeline, services, queues, members, row_order, redis, proc, stats_calls, distribution_log>>

GetNextAgentsFail(p, queue_id, tenant_uuid) ==
    /\ result = Idle
    /\ proc[p].pc = "idle"
    /\ \/ /\ ~QueueFound(queue_id, tenant_uuid)
          /\ result' = Response(p, queue_id, "QueueNotFound", <<>>)
       \/ /\ QueueFound(queue_id, tenant_uuid)
          /\ queues[queue_id].strategy \notin STRATEGY_MAPPING
          /\ result' = Response(p, queue_id, "InvalidQueueStrategy", <<>>)
    /\ UNCHANGED <<reliability, pipeline, services, queues, members, row_order, redis, proc, stats_calls, distribution_log>>

(* get_next_agents delegating to a strategy that touches shared state once *)
GetNextAgents_AdvancesCursor(p, queue_id, tenant_uuid) ==
    /\ result = Idle
    /\ proc[p].pc = "idle"
    /\ QueueFound(queue_id, tenant_uuid)
    /\ queues[queue_id].strategy \in STRATEGY_MAPPING \ {"rrmemory"}
    /\ \E out \in Select(queues[queue_id].strategy, queue_id) :
          result' = Response(p, queue_id, out[1], out[2])
    /\ redis' = [redis EXCEPT ![queue_id] = Stored(0)]
    /\ UNCHANGED <<reliability, pipeline, services, queues, members, row_order, proc, stats_calls, distribution_log>>

GetNextAgents(p, queue_id, tenant_uuid) ==
    /\ result = Idle
    /\ proc[p].pc = "idle"
    /\ QueueFound(queue_id, tenant_uuid)
    /\ queues[queue_id].strategy \in STRATEGY_MAPPING \ {"rrmemory"}
    /\ \E out \in Select(queues[queue_id].strategy, queue_id) :
          result' = Response(p, queue_id, out[1], out[2])
    /\ UNCHANGED <<reliability, pipeline, services, queues, members, row_order, redis, proc, stats_calls, distribution_log>>

(* rrmemory, lines 16-35: query the registry, keep the lowest tier, read the
   cursor, compute the next position.  The registry and the cursor live in
   different stores and nothing is written here, so the two reads are taken
   as one step; the request keeps what its later lines use: next_position and
   members[next_position], the selected_member of line 38. *)
NextPosition(last_position, n) == (last_position + 1) % n

RRRead(p, queue_id, tenant_uuid) ==
    /\ result = Idle
    /\ proc[p].pc = "idle"
    /\ QueueFound(queue_id, tenant_uuid)
    /\ queues[queue_id].strategy = "rrmemory"
    /\ LET ms == get_available_members(queue_id)
           tier == LowestPenaltyMembers(ms)
           last_position == ReadPosition(redis[queue_id])
           next_position == NextPosition(last_position, Len(tier))
       IN  IF Len(ms) = 0
           THEN /\ result' = Response(p, queue_id, "None", <<>>)
                /\ UNCHANGED proc
           ELSE /\ proc' = [proc EXCEPT ![p] =
                                [pc |-> "rr_set", queue_id |-> queue_id,
                                 next_position |-> next_position,
                                 selected_member |-> tier[next_position + 1]]]
                /\ UNCHANGED result
    /\ UNCHANGED <<reliability, pipeline, services, queues, members, row_order, redis, stats_calls, distribution_log>>

(* rrmemory, lines 36-41: store the cursor, return the selected member's agent *)
RRWriteCore(p) ==
    /\ result = Idle
    /\ proc[p].pc = "rr_set"
    /\ redis' = [redis EXCEPT ![proc[p].queue_id] = Stored(proc[p].next_position)]
    /\ result' = Response(p, proc[p].queue_id, "agent", <<agent_id(proc[p].selected_member)>>)
    /\ proc' = [proc EXCEPT ![p] = IdleProc]
    /\ UNCHANGED <<reliability, pipeline, services, queues, members, row_order, stats_calls>>

RRWrite(p) == RRWriteCore(p) /\ UNCHANGED distribution_log

(* RRWrite, also recording the agent id it hands to log_distribution *)
RRWriteLogged(p) ==
    /\ RRWriteCore(p)
    /\ distribution_log' = Append(distribution_log, result'.agents[1])

(* GetNextAgents, also recording the agent ids it hands to log_distribution *)
GetNextAgentsLogged(p, queue_id, tenant_uuid) ==
    /\ result = Idle
    /\ proc[p].pc = "idle"
    /\ Len(distribution_log) < MaxCalls
    /\ QueueFound(queue_id, tenant_uuid)
    /\ queues[queue_id].strategy \in STRATEGY_MAPPING \ {"rrmemory"}
    /\ \E out \in Select(queues[queue_id].strategy, queue_id) :
          /\ result' = Response(p, queue_id, out[1], out[2])
          /\ distribution_log' = distribution_log \o out[2]
    /\ UNCHANGED <<reliability, pipeline, services, queues, members, row_order, redis, proc, stats_calls>>

(* update_agent_stats: resolve the queue by id alone, build the strategy,
   call update_member_stats, which stores nothing *)
UpdateAgentStatsCore(p, queue_id, agent, call_duration) ==
    /\ result = Idle
    /\ proc[p].pc = "idle"
    /\ IF ~queues[queue_id].exists
       THEN result' = Response(p, queue_id, "QueueNotFound", <<>>)
       ELSE IF queues[queue_id].strategy \notin STRATEGY_MAPPING
       THEN result' = Response(p, queue_id, "InvalidQueueStrategy", <<>>)
       ELSE result' = Response(p, queue_id, "updated", <<agent>>)
    /\ UNCHANGED <<reliability, pipeline, services, queues, members, row_order, redis, proc, distribution_log>>

(* UpdateAgentStats, also recording that update_member_stats was called *)
UpdatesMade == LET ids == DOMAIN stats_calls
                   RECURSIVE Sum(_)
                   Sum(S) == IF S = {} THEN 0
                             ELSE LET x == CHOOSE y \in S : TRUE
                                  IN  stats_calls[x].calls + Sum(S \ {x})
               IN  Sum(ids)

UpdateAgentStatsLogged(p, queue_id, agent, call_duration) ==
    /\ UpdateAgentStatsCore(p, queue_id, agent, call_duration)
    /\ UpdatesMade < MaxUpdates
    /\ stats_calls' =
          IF result'.kind = "updated"
          THEN [stats_calls EXCEPT ![agent] =
                   [calls |-> @.calls + 1, talk_time |-> @.talk_time + call_duration,
                    last_call |-> UpdatesMade + 1]]
          ELSE stats_calls

(* get_agent_stats: resolve the queue by id alone, return get_member_stats *)
GetAgentStats(p, queue_id, agent) ==
    /\ result = Idle
    /\ proc[p].pc = "idle"
    /\ IF ~queues[queue_id].exists
       THEN result' = Response(p, queue_id, "QueueNotFound", <<>>)
       ELSE IF queues[queue_id].strategy \notin STRATEGY_MAPPING
       THEN result' = Response(p, queue_id, "InvalidQueueStrategy", <<>>)
       ELSE result' = [Response(p, queue_id, "stats", <<agent>>) EXCEPT !.stats = get_member_stats(agent)]
    /\ UNCHANGED <<reliability, pipeline, services, queues, members, row_order, redis, proc, stats_calls, distribution_log>>

(* the caller takes the response; a response is looked at in the state its
   request produced, before anything else happens *)
Return ==
    /\ result # Idle
    /\ result' = Idle
    /\ UNCHANGED <<reliability, pipeline, services, queues, members, row_order, redis, proc, stats_calls, distribution_log>>

(* ---------------------------- registry mutations ----------------------- *)
(* agent login / logout: QueueMember.is_available *)
SetAvailable(m, b) ==
    /\ result = Idle
    /\ members[m].is_available # b
    /\ members' = [members EXCEPT ![m].is_available = b]
    /\ UNCHANGED <<reliability, pipeline, services, queues, row_order, redis, proc, result, stats_calls, distribution_log>>

(* agent pause / unpause: QueueMember.paused *)
SetPaused(m, b) ==
    /\ result = Idle
    /\ members[m].paused # b
    /\ members' = [members EXCEPT ![m].paused = b]
    /\ UNCHANGED <<reliability, pipeline, services, queues, row_order, redis, proc, result, stats_calls, distribution_log>>

(* ---------------------------- ReliabilityService: failover -------------- *)
ConfigIds == 1..2

(* a FailoverConfig row; exists = FALSE stands for an id with no row *)
FailoverRow(t, q, en, size, wait, level, avail) ==
    [exists |-> TRUE, tenant_uuid |-> t, queue_id |-> q, enabled |-> en,
     max_queue_size |-> size, max_wait_time |-> wait,
     service_level_threshold |-> level, agent_availability_threshold |-> avail,
     active |-> FALSE, last_activation |-> None, last_recovery |-> None]

NoFailoverRow ==
    [exists |-> FALSE, tenant_uuid |-> "t1", queue_id |-> 0, enabled |-> FALSE,
     max_queue_size |-> None, max_wait_time |-> None,
     service_level_threshold |-> None, agent_availability_threshold |-> None,
     active |-> FALSE, last_activation |-> None, last_recovery |-> None]

(* a QueueMetrics row; exists = FALSE stands for a queue with no row *)
MetricsRow(t, waiting, wait, level, avail) ==
    [exists |-> TRUE, tenant_uuid |-> t, calls_waiting |-> waiting, longest_wait |-> wait,
     service_level |-> level, agents_available |-> avail]

NoMetricsRow ==
    [exists |-> FALSE, tenant_uuid |-> "t1", calls_waiting |-> 0, longest_wait |-> 0,
     service_level |-> 0, agents_available |-> 0]

(* truth value of an Optional[int] column in "config.x and ..." *)
Truthy_ZeroCounts(x) == x # None

Truthy(x) == x # None /\ x # 0

(* the f-string of a reason: the threshold it names and the two numbers in it *)
Reason(name, value, limit) == [cites |-> name, value |-> value, limit |-> limit]

NoReason == Reason("", 0, 0)

(* check_failover_conditions, lines 268-280: the if / elif chain *)
FailoverReason_ServiceLevelFirst(config, metrics) ==
    IF Truthy(config.max_queue_size) /\ metrics.calls_waiting >= config.max_queue_size
    THEN Reason("Queue size", metrics.calls_waiting, config.max_queue_size)
    ELSE IF Truthy(config.service_level_threshold) /\ metrics.service_level < config.service_level_threshold
    THEN Reason("Service level", metrics.service_level, config.service_level_threshold)
    ELSE IF Truthy(config.max_wait_time) /\ metrics.longest_wait >= config.max_wait_time
    THEN Reason("Wait time", metrics.longest_wait, config.max_wait_time)
    ELSE IF Truthy(config.agent_availability_threshold) /\ metrics.agents_available < config.agent_availability_threshold
    THEN Reason("Available agents", metrics.agents_available, config.agent_availability_threshold)
    ELSE NoReason

FailoverReason(config, metrics) ==
    IF Truthy(config.max_queue_size) /\ metrics.calls_waiting >= config.max_queue_size
    THEN Reason("Queue size", metrics.calls_waiting, config.max_queue_size)
    ELSE IF Truthy(config.max_wait_time) /\ metrics.longest_wait >= config.max_wait_time
    THEN Reason("Wait time", metrics.longest_wait, config.max_wait_time)
    ELSE IF Truthy(config.service_level_threshold) /\ metrics.service_level < config.service_level_threshold
    THEN Reason("Service level", metrics.service_level, config.service_level_threshold)
    ELSE IF Truthy(config.agent_availability_threshold) /\ metrics.agents_available < config.agent_availability_threshold
    THEN Reason("Available agents", metrics.agents_available, config.agent_availability_threshold)
    ELSE NoReason

(* list_failover_configs: the tenant's rows, of one queue when queue_id is truthy;
   rows come in id order *)
ConfigOrder == [i \in 1..Cardinality(ConfigIds) |-> i]

list_failover_configs(tenant_uuid, queue_id) ==
    SelectSeq(ConfigOrder, LAMBDA c :
        /\ failover_configs[c].exists
        /\ failover_configs[c].tenant_uuid = tenant_uuid
        /\ (queue_id # 0 => failover_configs[c].queue_id = queue_id))

(* the queue's QueueMetrics rows of the tenant, newest first, .first() *)
LatestMetrics(queue_id, tenant_uuid) ==
    IF queue_id \in QueueIds /\ metrics_rows[queue_id].exists /\ metrics_rows[queue_id].tenant_uuid = tenant_uuid
    THEN metrics_rows[queue_id]
    ELSE NoMetricsRow

(* check_failover_conditions: the loop over the configs, building triggered *)
RECURSIVE CheckLoop(_, _, _)
CheckLoop(configs, queue_id, tenant_uuid) ==
    IF Len(configs) = 0 THEN <<>>
    ELSE LET config == failover_configs[configs[1]]
             metrics == LatestMetrics(queue_id, tenant_uuid)
             rest == CheckLoop(Tail(configs), queue_id, tenant_uuid)
         IN  IF ~config.enabled THEN rest
             ELSE IF ~metrics.exists THEN rest
             ELSE IF FailoverReason(config, metrics) # NoReason
             THEN <<[config |-> configs[1], reason |-> FailoverReason(config, metrics)]>> \o rest
             ELSE rest

check_failover_conditions(queue_id, tenant_uuid) ==
    CheckLoop(list_failover_configs(tenant_uuid, queue_id), queue_id, tenant_uuid)

(* responses of the service *)
FailoverIdle ==
    [kind |-> "idle", op |-> "", config |-> 0, queue_id |-> 0, tenant_uuid |-> "t1",
     triggered |-> <<>>, message |-> ""]

FailoverResponse(k, c, q, t, tr) ==
    [kind |-> k, op |-> "check_failover_conditions", config |-> c, queue_id |-> q, tenant_uuid |-> t,
     triggered |-> tr, message |-> ""]

(* an operation returning the config row it worked on *)
ConfigReturned(op, c, t) ==
    [kind |-> "config", op |-> op, config |-> c, queue_id |-> 0, tenant_uuid |-> t,
     triggered |-> <<>>, message |-> ""]

(* an operation raising ValueError(message) *)
ConfigError(op, c, t, msg) ==
    [kind |-> "ValueError", op |-> op, config |-> c, queue_id |-> 0, tenant_uuid |-> t,
     triggered |-> <<>>, message |-> msg]

CheckFailoverConditions(queue_id, tenant_uuid) ==
    /\ failover_result = FailoverIdle
    /\ failover_result' = FailoverResponse("triggered", 0, queue_id, tenant_uuid,
                                           check_failover_conditions(queue_id, tenant_uuid))
    /\ UNCHANGED <<distribution, pipeline, services, failover_configs, metrics_rows>>

(* the caller takes the service's response *)
FailoverReturn ==
    /\ failover_result # FailoverIdle
    /\ failover_result' = FailoverIdle
    /\ UNCHANGED <<distribution, pipeline, services, failover_configs, metrics_rows>>

(* get_failover_config: the row by id and tenant, or ValueError *)
ConfigFound(config_id, tenant_uuid) ==
    /\ failover_configs[config_id].exists
    /\ failover_configs[config_id].tenant_uuid = tenant_uuid

(* datetime.utcnow(): later than every timestamp stored so far *)
SetMax(S) == CHOOSE x \in S : \A y \in S : y <= x

Now ==
    1 + SetMax({0} \cup {failover_configs[c].last_activation : c \in ConfigIds}
                   \cup {failover_configs[c].last_recovery : c \in ConfigIds})

(* create_failover_config: FailoverConfig(tenant_uuid=..., **config_data), add, commit;
   the id is the next of the sequence *)
CreateFailoverConfig(tenant_uuid, config_data) ==
    /\ failover_result = FailoverIdle
    /\ \E c \in ConfigIds :
          /\ ~failover_configs[c].exists
          /\ \A d \in ConfigIds : d < c => failover_configs[d].exists
          /\ failover_configs' =
                [failover_configs EXCEPT ![c] =
                    FailoverRow(tenant_uuid, config_data.queue_id, config_data.enabled,
                                None, config_data.max_wait_time, None, None)]
          /\ failover_result' = ConfigReturned("create_failover_config", c, tenant_uuid)
    /\ UNCHANGED <<distribution, pipeline, services, metrics_rows>>

(* setattr(config, key, value) *)
SetAttr(row, key, value) ==
    CASE key = "enabled" -> [row EXCEPT !.enabled = value]
      [] key = "active" -> [row EXCEPT !.active = value]
      [] key = "max_wait_time" -> [row EXCEPT !.max_wait_time = value]

(* for key, value in config_data.items(): setattr(config, key, value) *)
RECURSIVE SetAttrs(_, _)
SetAttrs(row, items) ==
    IF Len(items) = 0 THEN row
    ELSE SetAttrs(SetAttr(row, items[1][1], items[1][2]), Tail(items))

(* update_failover_config *)
UpdateFailoverConfig(config_id, tenant_uuid, config_data) ==
    /\ failover_result = FailoverIdle
    /\ IF ~ConfigFound(config_id, tenant_uuid)
       THEN /\ failover_result' = ConfigError("update_failover_config", config_id, tenant_uuid, "not found")
            /\ UNCHANGED failover_configs
       ELSE /\ failover_configs' =
                  [failover_configs EXCEPT ![config_id] = SetAttrs(@, config_data)]
            /\ failover_result' = ConfigReturned("update_failover_config", config_id, tenant_uuid)
    /\ UNCHANGED <<distribution, pipeline, services, metrics_rows>>

(* activate_failover *)
ActivateFailover_NoEnabledCheck(config_id, tenant_uuid) ==
    /\ failover_result = FailoverIdle
    /\ IF ~ConfigFound(config_id, tenant_uuid)
       THEN /\ failover_result' = ConfigError("activate_failover", config_id, tenant_uuid, "not found")
            /\ UNCHANGED failover_configs
       ELSE /\ failover_configs' =
                  [failover_configs EXCEPT ![config_id].active = TRUE,
                                           ![config_id].last_activation = Now]
            /\ failover_result' = ConfigReturned("activate_failover", config_id, tenant_uuid)
    /\ UNCHANGED <<distribution, pipeline, services, metrics_rows>>

ActivateFailover(config_id, tenant_uuid) ==
    /\ failover_result = FailoverIdle
    /\ IF ~ConfigFound(config_id, tenant_uuid)
       THEN /\ failover_result' = ConfigError("activate_failover", config_id, tenant_uuid, "not found")
            /\ UNCHANGED failover_configs
       ELSE IF ~failover_configs[config_id].enabled
       THEN /\ failover_result' = ConfigError("activate_failover", config_id, tenant_uuid, "Failover config is disabled")
            /\ UNCHANGED failover_configs
       ELSE /\ failover_configs' =
                  [failover_configs EXCEPT ![config_id].active = TRUE,
                                           ![config_id].last_activation = Now]
            /\ failover_result' = ConfigReturned("activate_failover", config_id, tenant_uuid)
    /\ UNCHANGED <<distribution, pipeline, services, metrics_rows>>

(* deactivate_failover *)
DeactivateFailover(config_id, tenant_uuid) ==
    /\ failover_result = FailoverIdle
    /\ IF ~ConfigFound(config_id, tenant_uuid)
       THEN /\ failover_result' = ConfigError("deactivate_failover", config_id, tenant_uuid, "not found")
            /\ UNCHANGED failover_configs
       ELSE /\ failover_configs' =
                  [failover_configs EXCEPT ![config_id].active = FALSE,
                                           ![config_id].last_recovery = Now]
            /\ failover_result' = ConfigReturned("deactivate_failover", config_id, tenant_uuid)
    /\ UNCHANGED <<distribution, pipeline, services, metrics_rows>>

(* no failover row, no metrics row, no call in progress *)
InitReliabilityEmpty ==
    /\ failover_configs = [c \in ConfigIds |-> NoFailoverRow]
    /\ metrics_rows = [q \in QueueIds |-> NoMetricsRow]
    /\ failover_result = FailoverIdle

(* ---------------------------- EventService ------------------------------ *)
EventIds == 1..MaxEvents

(* the agents that events name, and the record_event calls that run side by side *)
EventAgents == {agent_id(1), agent_id(2)}

Recorders == 1..2

(* a Redis hash of counters; exists = FALSE is the hash with no field *)
NoQueueHash ==
    [exists |-> FALSE, calls_waiting |-> 0, answered_calls |-> 0, abandoned_calls |-> 0,
     agents_logged |-> 0, agents_available |-> 0, agents_on_call |-> 0, agents_paused |-> 0]

NoAgentHash == [exists |-> FALSE, current_state |-> "", calls_taken |-> 0]

(* the data dictionary of a record_event call; None where a key is missing *)
EventData(queue, agent, call, state) ==
    [queue_id |-> queue, agent_id |-> agent, call_id |-> call, state |-> state]

(* Event(...): the row built from the arguments; the id is given at commit *)
Event(id, tenant_uuid, event_type, event_name, data) ==
    [id |-> id, tenant_uuid |-> tenant_uuid, event_type |-> event_type, event_name |-> event_name,
     queue_id |-> data.queue_id, agent_id |-> data.agent_id, call_id |-> data.call_id,
     state |-> data.state]

NoEvent == Event(0, "t1", "", "", EventData(None, None, None, ""))

IdleRecorder == [pc |-> "idle", event |-> NoEvent, step |-> 0, prev_state |-> ""]

(* one Redis command of a metrics update *)
HIncrBy(hash, id, field, amount) == [cmd |-> "hincrby", hash |-> hash, id |-> id, field |-> field, amount |-> amount]

HSet(hash, id, field, value) == [cmd |-> "hset", hash |-> hash, id |-> id, field |-> field, value |-> value]

HGet(hash, id, field) == [cmd |-> "hget", hash |-> hash, id |-> id, field |-> field]

(* the hincrby of agent_logout that depends on the state just read *)
HIncrByPrevState(id, amount) == [cmd |-> "hincrby_prev_state", hash |-> "queue_metrics", id |-> id, amount |-> amount]

(* _update_call_metrics: the Redis commands it issues, in order *)
CallOps_AnsweredKeepsWaiting(event) ==
    IF ~Truthy(event.queue_id) THEN <<>>
    ELSE IF event.event_name = "call_entered"
    THEN <<HIncrBy("queue_metrics", event.queue_id, "calls_waiting", 1)>>
    ELSE IF event.event_name = "call_answered"
    THEN <<HIncrBy("queue_metrics", event.queue_id, "answered_calls", 1)>>
    ELSE IF event.event_name = "call_abandoned"
    THEN <<HIncrBy("queue_metrics", event.queue_id, "calls_waiting", -1),
           HIncrBy("queue_metrics", event.queue_id, "abandoned_calls", 1)>>
    ELSE <<>>

CallOps(event) ==
    IF ~Truthy(event.queue_id) THEN <<>>
    ELSE IF event.event_name = "call_entered"
    THEN <<HIncrBy("queue_metrics", event.queue_id, "calls_waiting", 1)>>
    ELSE IF event.event_name = "call_answered"
    THEN <<HIncrBy("queue_metrics", event.queue_id, "calls_waiting", -1),
           HIncrBy("queue_metrics", event.queue_id, "answered_calls", 1)>>
         \o (IF Truthy(event.agent_id)
             THEN <<HIncrBy("agent_metrics", event.agent_id, "calls_taken", 1)>>
             ELSE <<>>)
    ELSE IF event.event_name = "call_abandoned"
    THEN <<HIncrBy("queue_metrics", event.queue_id, "calls_waiting", -1),
           HIncrBy("queue_metrics", event.queue_id, "abandoned_calls", 1)>>
    ELSE <<>>

(* _update_agent_metrics: the Redis commands it issues, in order; the hset of
   state_duration, a field no code reads, is left out *)
AgentOps_LogoutKeepsState(event) ==
    IF ~Truthy(event.agent_id) THEN <<>>
    ELSE IF event.event_name = "agent_login"
    THEN <<HSet("agent_metrics", event.agent_id, "current_state", "available")>>
         \o (IF Truthy(event.queue_id)
             THEN <<HIncrBy("queue_metrics", event.queue_id, "agents_logged", 1),
                    HIncrBy("queue_metrics", event.queue_id, "agents_available", 1)>>
             ELSE <<>>)
    ELSE IF event.event_name = "agent_logout" /\ Truthy(event.queue_id)
    THEN <<HIncrBy("queue_metrics", event.queue_id, "agents_logged", -1)>>
    ELSE <<>>

AgentOps(event) ==
    IF ~Truthy(event.agent_id) THEN <<>>
    ELSE IF event.event_name = "agent_login"
    THEN <<HSet("agent_metrics", event.agent_id, "current_state", "available")>>
         \o (IF Truthy(event.queue_id)
             THEN <<HIncrBy("queue_metrics", event.queue_id, "agents_logged", 1),
                    HIncrBy("queue_metrics", event.queue_id, "agents_available", 1)>>
             ELSE <<>>)
    ELSE IF event.event_name = "agent_logout" /\ Truthy(event.queue_id)
    THEN <<HIncrBy("queue_metrics", event.queue_id, "agents_logged", -1),
           HGet("agent_metrics", event.agent_id, "current_state"),
           HIncrByPrevState(event.queue_id, -1)>>
    ELSE <<>>

(* record_event, lines 36-39 *)
MetricOps(event) ==
    IF event.event_type = "call" THEN CallOps(event)
    ELSE IF event.event_type = "agent" THEN AgentOps(event)
    ELSE <<>>

(* _publish_event: the channels it publishes on, in order *)
PublishOps_QueueAlways(event) ==
    <<<<"events:tenant", event.tenant_uuid>>, <<"events:queue", event.queue_id>>>>
    \o (IF Truthy(event.agent_id) THEN <<<<"events:agent", event.agent_id>>>> ELSE <<>>)

PublishOps(event) ==
    <<<<"events:tenant", event.tenant_uuid>>>>
    \o (IF Truthy(event.queue_id) THEN <<<<"events:queue", event.queue_id>>>> ELSE <<>>)
    \o (IF Truthy(event.agent_id) THEN <<<<"events:agent", event.agent_id>>>> ELSE <<>>)

Channels ==
    {<<"events:tenant", t>> : t \in Tenants}
    \cup {<<"events:queue", q>> : q \in QueueIds \cup {None}}
    \cup {<<"events:agent", a>> : a \in EventAgents}

(* where record_event goes on after its commit, or after command number step *)
AfterMetrics(event, step) ==
    IF step < Len(MetricOps(event)) THEN [pc |-> "metrics", step |-> step + 1]
    ELSE [pc |-> "publish", step |-> 1]

(* record_event, lines 22-33: build the row, add, commit *)
RecordEvent(r, tenant_uuid, event_type, event_name, data) ==
    /\ recorder[r].pc = "idle"
    /\ Len(events) < MaxEvents
    /\ LET event == Event(Len(events) + 1, tenant_uuid, event_type, event_name, data)
           next == AfterMetrics(event, 0)
       IN  /\ events' = Append(events, event)
           /\ recorder' = [recorder EXCEPT ![r] =
                              [pc |-> next.pc, event |-> event, step |-> next.step, prev_state |-> ""]]
    /\ UNCHANGED <<distribution, reliability, services, channels, queue_metrics, agent_metrics>>

(* the counter a logout takes one from, by the state read; none for any other value *)
PrevStateField(prev_state) ==
    IF prev_state = "available" THEN "agents_available"
    ELSE IF prev_state = "on_call" THEN "agents_on_call"
    ELSE IF prev_state = "paused" THEN "agents_paused"
    ELSE ""

HashIncr(hash, field, amount) ==
    CASE field = "calls_waiting" -> [hash EXCEPT !.exists = TRUE, !.calls_waiting = @ + amount]
      [] field = "answered_calls" -> [hash EXCEPT !.exists = TRUE, !.answered_calls = @ + amount]
      [] field = "abandoned_calls" -> [hash EXCEPT !.exists = TRUE, !.abandoned_calls = @ + amount]
      [] field = "agents_logged" -> [hash EXCEPT !.exists = TRUE, !.agents_logged = @ + amount]
      [] field = "agents_available" -> [hash EXCEPT !.exists = TRUE, !.agents_available = @ + amount]
      [] field = "agents_on_call" -> [hash EXCEPT !.exists = TRUE, !.agents_on_call = @ + amount]
      [] field = "agents_paused" -> [hash EXCEPT !.exists = TRUE, !.agents_paused = @ + amount]
      [] field = "calls_taken" -> [hash EXCEPT !.exists = TRUE, !.calls_taken = @ + amount]
      [] field = "" -> hash

(* one Redis command of _update_call_metrics or _update_agent_metrics *)
UpdateMetrics(r) ==
    /\ recorder[r].pc = "metrics"
    /\ LET event == recorder[r].event
           op == MetricOps(event)[recorder[r].step]
           next == AfterMetrics(event, recorder[r].step)
           field == IF op.cmd = "hincrby_prev_state" THEN PrevStateField(recorder[r].prev_state)
                    ELSE op.field
       IN  /\ queue_metrics' =
                 IF op.hash = "queue_metrics" /\ op.cmd \in {"hincrby", "hincrby_prev_state"}
                 THEN [queue_metrics EXCEPT ![op.id] = HashIncr(@, field, op.amount)]
                 ELSE queue_metrics
           /\ agent_metrics' =
                 IF op.hash = "agent_metrics" /\ op.cmd = "hincrby"
                 THEN [agent_metrics EXCEPT ![op.id] = HashIncr(@, field, op.amount)]
                 ELSE IF op.hash = "agent_metrics" /\ op.cmd = "hset"
                 THEN [agent_metrics EXCEPT ![op.id] = [@ EXCEPT !.exists = TRUE, !.current_state = op.value]]
                 ELSE agent_metrics
           /\ recorder' = [recorder EXCEPT ![r] =
                              [@ EXCEPT !.pc = next.pc, !.step = next.step,
                                        !.prev_state = IF op.cmd = "hget"
                                                       THEN agent_metrics[op.id].current_state
                                                       ELSE @]]
    /\ UNCHANGED <<distribution, reliability, services, events, channels>>

(* one redis.publish of _publish_event; after the last, record_event returns *)
PublishEvent(r) ==
    /\ recorder[r].pc = "publish"
    /\ LET event == recorder[r].event
           ops == PublishOps(event)
           channel == ops[recorder[r].step]
       IN  /\ channels' = [channels EXCEPT ![<<channel, event.id>>] = @ + 1]
           /\ recorder' = [recorder EXCEPT ![r] =
                              IF recorder[r].step < Len(ops)
                              THEN [@ EXCEPT !.step = @ + 1]
                              ELSE [@ EXCEPT !.pc = "returned", !.step = 0]]
    /\ UNCHANGED <<distribution, reliability, services, events, queue_metrics, agent_metrics>>

(* the caller takes what record_event returned or raised *)
RecordEventReturn(r) ==
    /\ recorder[r].pc \in {"returned", "raised"}
    /\ recorder' = [recorder EXCEPT ![r] = IdleRecorder]
    /\ UNCHANGED <<distribution, reliability, services, events, channels, queue_metrics, agent_metrics>>

(* session.commit() raises: no row is stored, record_event raises *)
CommitFails_Publishes(r, tenant_uuid, event_type, event_name, data) ==
    /\ recorder[r].pc = "idle"
    /\ Len(events) < MaxEvents
    /\ recorder' = [recorder EXCEPT ![r] =
                       [pc |-> "publish", step |-> 1, prev_state |-> "",
                        event |-> Event(Len(events) + 1, tenant_uuid, event_type, event_name, data)]]
    /\ UNCHANGED <<distribution, reliability, services, events, channels, queue_metrics, agent_metrics>>

CommitFails(r, tenant_uuid, event_type, event_name, data) ==
    /\ recorder[r].pc = "idle"
    /\ Len(events) < MaxEvents
    /\ recorder' = [recorder EXCEPT ![r] =
                       [pc |-> "raised", step |-> 0, prev_state |-> "",
                        event |-> Event(0, tenant_uuid, event_type, event_name, data)]]
    /\ UNCHANGED <<distribution, reliability, services, events, channels, queue_metrics, agent_metrics>>

(* a Redis command of the metrics update raises: record_event raises *)
UpdateMetricsFails(r) ==
    /\ recorder[r].pc = "metrics"
    /\ recorder' = [recorder EXCEPT ![r] = [@ EXCEPT !.pc = "raised", !.step = 0]]
    /\ UNCHANGED <<distribution, reliability, services, events, channels, queue_metrics, agent_metrics>>

(* a redis.publish raises: record_event raises *)
PublishFails(r) ==
    /\ recorder[r].pc = "publish"
    /\ recorder' = [recorder EXCEPT ![r] = [@ EXCEPT !.pc = "raised", !.step = 0]]
    /\ UNCHANGED <<distribution, reliability, services, events, channels, queue_metrics, agent_metrics>>

InitPipelineEmpty ==
    /\ events = <<>>
    /\ channels = [c \in Channels \X EventIds |-> 0]
    /\ queue_metrics = [q \in QueueIds |-> NoQueueHash]
    /\ agent_metrics = [a \in {agent_id(m) : m \in AllMembers} |-> NoAgentHash]
    /\ recorder = [r \in Recorders |-> IdleRecorder]

(* ---------------------------- QueueService ------------------------------ *)
QueueIdle == [kind |-> "idle", op |-> "", queue_id |-> 0, tenant_uuid |-> "t1", strategy |-> ""]

(* a response, with the strategy name the request carried ("" for none) *)
QueueResponse(k, op, q, t, s) == [kind |-> k, op |-> op, queue_id |-> q, tenant_uuid |-> t, strategy |-> s]

(* _validate_strategy: TRUE when it returns, FALSE when it raises *)
validate_strategy_AcceptsAll(strategy) == TRUE

validate_strategy(strategy) ==
    strategy \in {"ringall", "leastrecent", "fewestcalls", "random", "rrmemory", "linear"}

(* dict.get(key, default) *)
DictGet(d, key, default) == IF key \in DOMAIN d THEN d[key] ELSE default

(* the foreign key of overflow_queue_id: every value names a row *)
ForeignKeyHolds(qs, ov) ==
    \A q \in QueueIds : qs[q].exists /\ ov[q] # None => ov[q] \in QueueIds /\ qs[ov[q]].exists

(* session.commit() of the pending rows qs, ov: stored, or, on an engine that
   enforces the foreign key, rejected with nothing stored *)
CommitQueues(qs, ov, seq, response) ==
    IF foreign_keys /\ ~ForeignKeyHolds(qs, ov)
    THEN /\ queue_result' = [response EXCEPT !.kind = "IntegrityError"]
         /\ UNCHANGED <<queues, overflow, queue_seq>>
    ELSE /\ queues' = qs
         /\ overflow' = ov
         /\ queue_seq' = seq
         /\ queue_result' = response

QueueServiceIdle == queue_result = QueueIdle /\ result = Idle

QueueFrame ==
    UNCHANGED <<foreign_keys, reader, outreach, reliability, pipeline, members, row_order, redis, proc, result, stats_calls, distribution_log>>

(* QueueService.create *)
CreateQueue(tenant_uuid, queue_data) ==
    /\ QueueServiceIdle
    /\ queue_seq + 1 \in QueueIds
    /\ IF ~validate_strategy(DictGet(queue_data, "strategy", "ringall"))
       THEN /\ queue_result' = QueueResponse("InvalidQueueStrategy", "create", 0, tenant_uuid, DictGet(queue_data, "strategy", ""))
            /\ UNCHANGED <<queues, overflow, queue_seq>>
       ELSE LET id == queue_seq + 1
                row == [exists |-> TRUE, tenant_uuid |-> tenant_uuid,
                        strategy |-> DictGet(queue_data, "strategy", "ringall")]
            IN  CommitQueues([queues EXCEPT ![id] = row],
                             [overflow EXCEPT ![id] = DictGet(queue_data, "overflow_queue_id", None)],
                             id, QueueResponse("queue", "create", id, tenant_uuid, DictGet(queue_data, "strategy", "")))
    /\ QueueFrame

(* QueueService.update *)
UpdateQueue(queue_id, tenant_uuid, queue_data) ==
    /\ QueueServiceIdle
    /\ IF ~QueueFound(queue_id, tenant_uuid)
       THEN /\ queue_result' = QueueResponse("QueueNotFound", "update", queue_id, tenant_uuid, DictGet(queue_data, "strategy", ""))
            /\ UNCHANGED <<queues, overflow, queue_seq>>
       ELSE IF "strategy" \in DOMAIN queue_data /\ ~validate_strategy(queue_data.strategy)
       THEN /\ queue_result' = QueueResponse("InvalidQueueStrategy", "update", queue_id, tenant_uuid, DictGet(queue_data, "strategy", ""))
            /\ UNCHANGED <<queues, overflow, queue_seq>>
       ELSE CommitQueues([queues EXCEPT ![queue_id].strategy = DictGet(queue_data, "strategy", @)],
                         [overflow EXCEPT ![queue_id] = DictGet(queue_data, "overflow_queue_id", @)],
                         queue_seq, QueueResponse("queue", "update", queue_id, tenant_uuid, DictGet(queue_data, "strategy", "")))
    /\ QueueFrame

(* QueueService.delete *)
DeleteQueue(queue_id, tenant_uuid) ==
    /\ QueueServiceIdle
    /\ IF ~QueueFound(queue_id, tenant_uuid)
       THEN /\ queue_result' = QueueResponse("QueueNotFound", "delete", queue_id, tenant_uuid, "")
            /\ UNCHANGED <<queues, overflow, queue_seq>>
       ELSE CommitQueues([queues EXCEPT ![queue_id].exists = FALSE],
                         [overflow EXCEPT ![queue_id] = None],
                         queue_seq, QueueResponse("None", "delete", queue_id, tenant_uuid, ""))
    /\ QueueFrame

(* QueueService.update_overflow_settings *)
UpdateOverflowSettings(queue_id, tenant_uuid, overflow_queue_id) ==
    /\ QueueServiceIdle
    /\ IF ~QueueFound(queue_id, tenant_uuid)
       THEN /\ queue_result' = QueueResponse("QueueNotFound", "update_overflow_settings", queue_id, tenant_uuid, "")
            /\ UNCHANGED <<queues, overflow, queue_seq>>
       ELSE IF Truthy(overflow_queue_id) /\ ~QueueFound(overflow_queue_id, tenant_uuid)
       THEN /\ queue_result' = QueueResponse("QueueNotFound", "update_overflow_settings", overflow_queue_id, tenant_uuid, "")
            /\ UNCHANGED <<queues, overflow, queue_seq>>
       ELSE CommitQueues(queues,
                         [overflow EXCEPT ![queue_id] = IF Truthy(overflow_queue_id) THEN overflow_queue_id ELSE None],
                         queue_seq, QueueResponse("queue", "update_overflow_settings", queue_id, tenant_uuid, ""))
    /\ QueueFrame

(* the caller takes the QueueService response *)
QueueReturn ==
    /\ queue_result # QueueIdle
    /\ queue_result' = QueueIdle
    /\ UNCHANGED <<distribution, reliability, pipeline, reader, outreach, overflow, foreign_keys, queue_seq>>

InitManagementEmpty ==
    /\ overflow = [q \in QueueIds |-> None]
    /\ foreign_keys = TRUE
    /\ queue_seq = MissingQueue - 1
    /\ queue_result = QueueIdle

(* ---------------------------- EventService: real-time reads ------------- *)
IdleReader == [pc |-> "idle", queue_id |-> 0, step |-> 0]

(* _initialize_queue_metrics: the counters of the metrics dictionary, in its
   order; each is written by its own hset, as json.dumps(0) = "0", which
   hincrby reads as 0.  The dictionary's other keys are never incremented. *)
InitialFields ==
    <<"calls_waiting", "abandoned_calls", "answered_calls", "agents_logged",
      "agents_available", "agents_on_call", "agents_paused">>

ReaderFrame ==
    UNCHANGED <<distribution, reliability, management, outreach, events, channels, agent_metrics, recorder>>

(* get_realtime_queue_metrics up to the hgetall and the queue lookup *)
GetRealtimeQueueMetrics(queue_id, tenant_uuid) ==
    /\ reader.pc = "idle"
    /\ reader' = IF queue_metrics[queue_id].exists
                 THEN [pc |-> "returned", queue_id |-> queue_id, step |-> 0]
                 ELSE IF ~QueueFound(queue_id, tenant_uuid)
                 THEN [pc |-> "QueueNotFound", queue_id |-> queue_id, step |-> 0]
                 ELSE [pc |-> "initialize", queue_id |-> queue_id, step |-> 1]
    /\ UNCHANGED queue_metrics
    /\ ReaderFrame

(* one hset of the loop of _initialize_queue_metrics *)
InitializeQueueMetrics ==
    /\ reader.pc = "initialize"
    /\ queue_metrics' = [queue_metrics EXCEPT ![reader.queue_id] =
                            [@ EXCEPT !.exists = TRUE, ![InitialFields[reader.step]] = 0]]
    /\ reader' = IF reader.step = Len(InitialFields)
                 THEN [reader EXCEPT !.pc = "returned", !.step = 0]
                 ELSE [reader EXCEPT !.step = @ + 1]
    /\ ReaderFrame

(* the caller takes the metrics or the error *)
ReaderReturn ==
    /\ reader.pc \in {"returned", "QueueNotFound"}
    /\ reader' = IdleReader
    /\ UNCHANGED queue_metrics
    /\ ReaderFrame

(* ---- IntegrationService: webhook deliveries and their retries --------- *)
EventTypes == {"call_entered", "agent_login"}

WebhookEvents == {"e1", "e2"}

(* Webhook row; queue_ids and agent_ids are left unset, so the two filters of
   trigger_webhook pass *)
WebhookRow(en, re, ma, ri) ==
    [enabled |-> en, event_types |-> {"call_entered"}, retry_enabled |-> re,
     retry_max_attempts |-> ma, retry_interval |-> ri]

(* WebhookDelivery row; timestamps are integers in the order of their
   isoformat() strings *)
Delivery(e, st, at, nr) == [event_id |-> e, status |-> st, attempt |-> at, next_retry |-> nr]

NoDelivery == [kind |-> "none", op |-> "", delivery |-> 0, retry_count |-> 0]

WebhookResponse(k, op, d, n) == [kind |-> k, op |-> op, delivery |-> d, retry_count |-> n]

(* the request to the endpoint and what is stored of its answer: status, and
   next_retry when a retry is scheduled *)
Sent(d, ok) ==
    IF ok THEN [d EXCEPT !.status = "success"]
    ELSE [d EXCEPT !.status = "failed",
                   !.next_retry = IF webhook.retry_enabled /\ d.attempt < webhook.retry_max_attempts
                                  THEN utcnow + webhook.retry_interval
                                  ELSE None]

WebhookFrame ==
    UNCHANGED <<distribution, reliability, pipeline, management, reader, webhook, callback_requests, callback_result, callback_schedule>>

(* IntegrationService.trigger_webhook; attempt takes the column default 1 *)
TriggerWebhook(event_type, event_id, ok) ==
    /\ IF ~webhook.enabled \/ event_type \notin webhook.event_types
       THEN /\ webhook_result' = WebhookResponse("none", "trigger_webhook", 0, 0)
            /\ UNCHANGED deliveries
       ELSE /\ Len(deliveries) < MaxDeliveries
            /\ deliveries' = Append(deliveries, Sent(Delivery(event_id, "pending", 1, None), ok))
            /\ webhook_result' = WebhookResponse("delivery", "trigger_webhook", Len(deliveries) + 1, 0)
    /\ UNCHANGED utcnow
    /\ WebhookFrame

(* retry_webhook refuses: no such delivery, a delivered one, or a webhook
   that is disabled or has retries off *)
RetryRefused(ds, delivery_id) ==
    \/ delivery_id \notin 1..Len(ds)
    \/ ds[delivery_id].status = "success"
    \/ ~webhook.enabled
    \/ ~webhook.retry_enabled

(* the rows after retry_webhook(delivery_id): one more row, attempt + 1; the
   row retried is left as it was *)
Retried(ds, delivery_id, ok) ==
    IF RetryRefused(ds, delivery_id) THEN ds
    ELSE Append(ds, Sent(Delivery(ds[delivery_id].event_id, "pending", ds[delivery_id].attempt + 1, None), ok))

(* the query of process_pending_retries: failed rows whose next_retry is set
   and not after now, in id order *)
DueForRetry(ds) ==
    {i \in 1..Len(ds) : ds[i].status = "failed" /\ ds[i].next_retry # None /\ ds[i].next_retry <= utcnow}

RECURSIVE RetryAll(_, _, _)
RetryAll(ds, due, oks) ==
    IF due = {} THEN ds
    ELSE LET i == CHOOSE j \in due : \A k \in due : j <= k
         IN  RetryAll(Retried(ds, i, oks[i]), due \ {i}, oks)

(* IntegrationService.process_pending_retries; oks[i] is the endpoint's
   answer to the retry of row i *)
ProcessPendingRetries(oks) ==
    /\ Len(RetryAll(deliveries, DueForRetry(deliveries), oks)) <= MaxDeliveries
    /\ deliveries' = RetryAll(deliveries, DueForRetry(deliveries), oks)
    /\ webhook_result' = WebhookResponse("count", "process_pending_retries", 0, Cardinality(DueForRetry(deliveries)))
    /\ UNCHANGED utcnow
    /\ WebhookFrame

(* time passes; the clock is cut off at MaxClock *)
Tick ==
    /\ utcnow < MaxClock
    /\ utcnow' = utcnow + 1
    /\ UNCHANGED <<distribution, reliability, pipeline, management, reader,
                   webhook, deliveries, webhook_result, callback_requests, callback_result, callback_schedule>>

InitWebhookEmpty ==
    /\ webhook = WebhookRow(TRUE, TRUE, 1, 1)
    /\ deliveries = <<>>
    /\ webhook_result = NoDelivery
    /\ utcnow = 0

(* ---- CallbackService: the life of a callback request ------------------- *)
RequestIds == {1}

(* models/callback.py: the values of CallbackRequest.status *)
CallbackStatuses == {"pending", "scheduled", "in_progress", "completed", "failed", "expired", "cancelled"}

TerminalStatuses == {"completed", "failed", "expired", "cancelled"}

(* fail_callback and create_callback_request without a schedule *)
DefaultMaxAttempts == 3

DefaultExpiryHours == 24

NoSchedule == [exists |-> FALSE, max_attempts |-> 0, expiry_hours |-> 0]

Schedule(ma, eh) == [exists |-> TRUE, max_attempts |-> ma, expiry_hours |-> eh]

NoRequest ==
    [exists |-> FALSE, tenant_uuid |-> "t1", queue_id |-> 0, status |-> "pending", attempts |-> 0,
     expiry_time |-> 0, assigned_agent_id |-> None, completed_by_agent_id |-> None,
     result |-> "None", notes |-> "None"]

(* the Agent rows: the agent of every member row, under its queue's tenant *)
AgentOfTenant(agent, tenant_uuid) ==
    \E m \in 1..(MaxMembers + 1) :
        /\ agent = agent_id(m)
        /\ tenant_uuid = (IF m = MaxMembers + 1 THEN "t2" ELSE "t1")

CallbackIdle == [kind |-> "idle", op |-> "", request_id |-> 0, count |-> 0]

CallbackResponse(k, op, r, n) == [kind |-> k, op |-> op, request_id |-> r, count |-> n]

(* get_callback_request finds the row *)
RequestFound(request_id, tenant_uuid) ==
    /\ request_id \in RequestIds
    /\ callback_requests[request_id].exists
    /\ callback_requests[request_id].tenant_uuid = tenant_uuid

CallbackFrame ==
    UNCHANGED <<distribution, reliability, pipeline, management, reader,
                webhook, deliveries, webhook_result, callback_schedule, utcnow>>

(* a call that raises: nothing is committed *)
CallbackRaises(kind, op, request_id) ==
    /\ callback_result' = CallbackResponse(kind, op, request_id, 0)
    /\ UNCHANGED callback_requests

(* a call that commits the row and returns it *)
CallbackCommits(op, request_id, row) ==
    /\ callback_requests' = [callback_requests EXCEPT ![request_id] = row]
    /\ callback_result' = CallbackResponse("request", op, request_id, 0)

(* CallbackService.create_callback_request *)
CreateCallbackRequest(tenant_uuid, queue_id) ==
    /\ IF ~(queue_id \in QueueIds /\ queues[queue_id].exists /\ queues[queue_id].tenant_uuid = tenant_uuid)
       THEN CallbackRaises("QueueNotFound", "create_callback_request", 0)
       ELSE \E r \in RequestIds :
              /\ ~callback_requests[r].exists
              /\ \A s \in 1..(r - 1) : callback_requests[s].exists
              /\ CallbackCommits("create_callback_request", r,
                    [NoRequest EXCEPT !.exists = TRUE, !.tenant_uuid = tenant_uuid, !.queue_id = queue_id,
                                      !.expiry_time = utcnow + (IF callback_schedule.exists /\ queue_id = 1
                                                                THEN callback_schedule.expiry_hours
                                                                ELSE DefaultExpiryHours)])
    /\ CallbackFrame

(* CallbackService.assign_callback_request *)
AssignCallbackRequest(request_id, agent, tenant_uuid) ==
    /\ IF ~RequestFound(request_id, tenant_uuid)
       THEN CallbackRaises("ValueError", "assign_callback_request", request_id)
       ELSE IF ~AgentOfTenant(agent, tenant_uuid)
       THEN CallbackRaises("AgentNotFound", "assign_callback_request", request_id)
       ELSE CallbackCommits("assign_callback_request", request_id,
              [callback_requests[request_id] EXCEPT !.assigned_agent_id = agent, !.status = "scheduled"])
    /\ CallbackFrame

(* CallbackService.start_callback; attempts is cut off at MaxCalls *)
StartCallback(request_id, agent, tenant_uuid) ==
    /\ IF ~RequestFound(request_id, tenant_uuid)
       THEN CallbackRaises("ValueError", "start_callback", request_id)
       ELSE IF callback_requests[request_id].status \notin {"pending", "scheduled"}
       THEN CallbackRaises("ValueError", "start_callback", request_id)
       ELSE /\ callback_requests[request_id].attempts < MaxCalls
            /\ CallbackCommits("start_callback", request_id,
                  [callback_requests[request_id] EXCEPT !.status = "in_progress", !.assigned_agent_id = agent,
                                                        !.attempts = @ + 1])
    /\ CallbackFrame

(* CallbackService.complete_callback *)
CompleteCallback(request_id, agent, tenant_uuid, res) ==
    /\ IF ~RequestFound(request_id, tenant_uuid)
       THEN CallbackRaises("ValueError", "complete_callback", request_id)
       ELSE IF callback_requests[request_id].status # "in_progress"
       THEN CallbackRaises("ValueError", "complete_callback", request_id)
       ELSE CallbackCommits("complete_callback", request_id,
              [callback_requests[request_id] EXCEPT !.status = "completed", !.completed_by_agent_id = agent,
                                                    !.result = res, !.notes = "None"])
    /\ CallbackFrame

(* the schedule fail_callback reads: the enabled one of the request's queue *)
MaxAttemptsOf(queue_id) ==
    IF callback_schedule.exists /\ queue_id = 1 THEN callback_schedule.max_attempts ELSE DefaultMaxAttempts

(* CallbackService.fail_callback *)
FailCallback(request_id, tenant_uuid, res, retry) ==
    /\ IF ~RequestFound(request_id, tenant_uuid)
       THEN CallbackRaises("ValueError", "fail_callback", request_id)
       ELSE LET request == callback_requests[request_id]
            IN  CallbackCommits("fail_callback", request_id,
                  IF retry /\ request.attempts < MaxAttemptsOf(request.queue_id)
                  THEN [request EXCEPT !.status = "pending", !.assigned_agent_id = None,
                                       !.result = res, !.notes = "None"]
                  ELSE [request EXCEPT !.status = "failed", !.result = res, !.notes = "None"])
    /\ CallbackFrame

(* CallbackService.cancel_callback *)
CancelCallback(request_id, tenant_uuid) ==
    /\ IF ~RequestFound(request_id, tenant_uuid)
       THEN CallbackRaises("ValueError", "cancel_callback", request_id)
       ELSE IF callback_requests[request_id].status \in {"completed", "failed", "expired", "cancelled"}
       THEN CallbackRaises("ValueError", "cancel_callback", request_id)
       ELSE CallbackCommits("cancel_callback", request_id,
              [callback_requests[request_id] EXCEPT !.status = "cancelled", !.notes = "None"])
    /\ CallbackFrame

(* the query of process_expired_callbacks *)
Expired(tenant_uuid) ==
    {r \in RequestIds : /\ callback_requests[r].exists
                        /\ callback_requests[r].tenant_uuid = tenant_uuid
                        /\ callback_requests[r].status \in {"pending", "scheduled"}
                        /\ callback_requests[r].expiry_time <= utcnow}

(* CallbackService.process_expired_callbacks *)
ProcessExpiredCallbacks(tenant_uuid) ==
    /\ callback_requests' =
          [r \in RequestIds |->
             IF r \in Expired(tenant_uuid)
             THEN [callback_requests[r] EXCEPT !.status = "expired", !.notes = "Callback request expired"]
             ELSE callback_requests[r]]
    /\ callback_result' = CallbackResponse("count", "process_expired_callbacks", 0, Cardinality(Expired(tenant_uuid)))
    /\ CallbackFrame

InitCallbacksEmpty ==
    /\ callback_requests = [r \in RequestIds |-> NoRequest]
    /\ callback_result = CallbackIdle
    /\ callback_schedule = NoSchedule

InitOutreachEmpty ==
    /\ InitWebhookEmpty
    /\ InitCallbacksEmpty

InitServicesEmpty ==
    /\ InitManagementEmpty
    /\ reader = IdleReader
    /\ InitOutreachEmpty

(* ---------------------------- initial states --------------------------- *)
(* row orders tried: the member table scanned by ascending or by descending id *)
Ascending == [i \in 1..MaxMembers |-> i]

Descending == [i \in 1..MaxMembers |-> MaxMembers + 1 - i]

RowOrders == {<<ForeignMember>> \o Ascending, <<ForeignMember>> \o Descending}

NewMember(q, pen) == [queue_id |-> q, penalty |-> pen, is_available |-> TRUE, paused |-> FALSE]

InitQueues ==
    \E s \in STRATEGY_MAPPING :
        queues = [q \in QueueIds |->
                    IF q = MissingQueue THEN [exists |-> FALSE, tenant_uuid |-> "t1", strategy |-> s]
                    ELSE IF q = 1 THEN [exists |-> TRUE, tenant_uuid |-> "t1", strategy |-> s]
                    ELSE [exists |-> TRUE, tenant_uuid |-> "t2", strategy |-> "linear"]]

InitMembers ==
    \E pen \in [MemberIds -> Penalties] :
        members = [m \in AllMembers |->
                     IF m = ForeignMember THEN NewMember(2, 0) ELSE NewMember(1, pen[m])]

Init ==
    /\ InitQueues
    /\ InitMembers
    /\ row_order \in RowOrders
    /\ redis = [q \in QueueIds |-> Missing]
    /\ proc = [p \in Procs |-> IdleProc]
    /\ result = Idle
    /\ stats_calls = [a \in {agent_id(m) : m \in AllMembers} |-> [calls |-> 0, talk_time |-> 0, last_call |-> 0]]
    /\ distribution_log = <<>>
    /\ InitReliabilityEmpty
    /\ InitPipelineEmpty
    /\ InitServicesEmpty

(* Requests one at a time, the registry changing between requests and, for
   rrmemory, between its read and its write.  Every handler but rrmemory's
   touches shared state in a single query, so requests running side by side
   behave as requests in some order; rrmemory side by side is SpecConc. *)
Next ==
    \/ \E t \in Tenants : GetNextAgentsFail(1, 1, t)
    \/ \E t \in Tenants : GetNextAgents(1, 1, t)
    \/ \E t \in Tenants : RRRead(1, 1, t)
    \/ RRWrite(1)
    \/ Return
    \/ \E m \in MemberIds, b \in BOOLEAN : SetAvailable(m, b)
    \/ \E m \in MemberIds, b \in BOOLEAN : SetPaused(m, b)

Spec == Init /\ [][Next]_vars

(* ---- sequential rrmemory requests on an unchanging registry ------------ *)
AgentIds == {agent_id(m) : m \in AllMembers}

StoredCursors == {Missing} \cup {Stored(n) : n \in 0..(MaxMembers - 1)}

InitRegistry ==
    /\ \E pen \in [MemberIds -> Penalties], av \in [MemberIds -> BOOLEAN], pa \in [MemberIds -> BOOLEAN] :
          members = [m \in AllMembers |->
                       IF m = ForeignMember THEN NewMember(2, 0)
                       ELSE [queue_id |-> 1, penalty |-> pen[m], is_available |-> av[m], paused |-> pa[m]]]
    /\ row_order \in RowOrders

InitRR ==
    /\ InitQueues
    /\ StrategyOf(1) = "rrmemory"
    /\ InitRegistry
    /\ \E c \in StoredCursors : redis = [q \in QueueIds |-> IF q = 1 THEN c ELSE Missing]
    /\ proc = [p \in Procs |-> IdleProc]
    /\ result = Idle
    /\ stats_calls = [a \in AgentIds |-> [calls |-> 0, talk_time |-> 0, last_call |-> 0]]
    /\ distribution_log = <<>>
    /\ InitReliabilityEmpty
    /\ InitPipelineEmpty
    /\ InitServicesEmpty

NextSeq ==
    \/ /\ Len(distribution_log) < MaxCalls
       /\ RRRead(1, 1, "t1")
    \/ RRWriteLogged(1)
    \/ Return

SpecSeq == InitRR /\ [][NextSeq]_vars

(* ---- concurrent rrmemory requests on an unchanging registry ------------ *)
NextConc ==
    \/ \E p \in Procs : RRRead(p, 1, "t1")
    \/ \E p \in Procs : RRWrite(p)
    \/ Return

SpecConc == InitRR /\ [][NextConc]_vars

(* ---- selection and statistics ------------------------------------------ *)
InitStats ==
    /\ Init
    /\ StrategyOf(1) \in {"fewestcalls", "leastrecent"}

NextStats ==
    \/ GetNextAgentsLogged(1, 1, "t1")
    \/ \E q \in {1, MissingQueue}, m \in MemberIds, d \in Durations :
          UpdateAgentStatsLogged(1, q, agent_id(m), d)
    \/ \E q \in {1, MissingQueue}, m \in MemberIds : GetAgentStats(1, q, agent_id(m))
    \/ Return

SpecStats == InitStats /\ [][NextStats]_vars

(* ---- dispatch over every queue id and tenant --------------------------- *)
(* a strategy name a queue row can hold for which no engine is registered *)
UnregisteredStrategy == "skillbased"

InitDispatch ==
    /\ \E s1 \in STRATEGY_MAPPING \cup {UnregisteredStrategy}, s2 \in {"linear", UnregisteredStrategy} :
          queues = [q \in QueueIds |->
                      IF q = MissingQueue THEN [exists |-> FALSE, tenant_uuid |-> "t1", strategy |-> s1]
                      ELSE IF q = 1 THEN [exists |-> TRUE, tenant_uuid |-> "t1", strategy |-> s1]
                      ELSE [exists |-> TRUE, tenant_uuid |-> "t2", strategy |-> s2]]
    /\ InitMembers
    /\ row_order \in RowOrders
    /\ redis = [q \in QueueIds |-> Missing]
    /\ proc = [p \in Procs |-> IdleProc]
    /\ result = Idle
    /\ stats_calls = [a \in AgentIds |-> [calls |-> 0, talk_time |-> 0, last_call |-> 0]]
    /\ distribution_log = <<>>
    /\ InitReliabilityEmpty
    /\ InitPipelineEmpty
    /\ InitServicesEmpty

NextDispatch ==
    \/ \E q \in QueueIds, t \in Tenants : GetNextAgentsFail(1, q, t)
    \/ \E q \in QueueIds, t \in Tenants : GetNextAgents(1, q, t)
    \/ \E q \in QueueIds, t \in Tenants : RRRead(1, q, t)
    \/ RRWrite(1)
    \/ Return

SpecDispatch == InitDispatch /\ [][NextDispatch]_vars

(* ---- the distribution side at rest, for the services that never touch it *)
InitDistributionQuiet ==
    /\ queues = [q \in QueueIds |->
                   IF q = MissingQueue THEN [exists |-> FALSE, tenant_uuid |-> "t1", strategy |-> "ringall"]
                   ELSE IF q = 1 THEN [exists |-> TRUE, tenant_uuid |-> "t1", strategy |-> "ringall"]
                   ELSE [exists |-> TRUE, tenant_uuid |-> "t2", strategy |-> "linear"]]
    /\ members = [m \in AllMembers |-> IF m = ForeignMember THEN NewMember(2, 0) ELSE NewMember(1, 0)]
    /\ row_order = <<ForeignMember>> \o Ascending
    /\ redis = [q \in QueueIds |-> Missing]
    /\ proc = [p \in Procs |-> IdleProc]
    /\ result = Idle
    /\ stats_calls = [a \in AgentIds |-> [calls |-> 0, talk_time |-> 0, last_call |-> 0]]
    /\ distribution_log = <<>>

(* ---- check_failover_conditions over configs and snapshots -------------- *)
Levels == 0..MaxLevel

Thresholds == {None} \cup (1..MaxLevel)

(* the second row: none, or a row of either queue with one value in all four thresholds *)
SecondConfigs ==
    {NoFailoverRow} \cup
    {FailoverRow(pl[1], pl[2], en, v, v, v, v) :
        pl \in {<<"t1", 1>>, <<"t2", 2>>}, en \in BOOLEAN, v \in Thresholds}

Snapshots == {NoMetricsRow} \cup {MetricsRow("t1", th[1], th[2], th[3], th[4]) : th \in [1..4 -> Levels]}

InitCheck ==
    /\ InitDistributionQuiet
    /\ InitPipelineEmpty
    /\ InitServicesEmpty
    /\ \E en \in BOOLEAN, th \in [1..4 -> Thresholds], second \in SecondConfigs :
          failover_configs = [c \in ConfigIds |->
                                IF c = 1 THEN FailoverRow("t1", 1, en, th[1], th[2], th[3], th[4])
                                ELSE second]
    /\ \E snapshot \in Snapshots :
          metrics_rows = [q \in QueueIds |->
                            IF q = 1 THEN snapshot
                            ELSE IF q = 2 THEN MetricsRow("t2", MaxLevel, MaxLevel, 0, 0)
                            ELSE NoMetricsRow]
    /\ failover_result = FailoverIdle

NextCheck ==
    \/ \E q \in {1, 2}, t \in Tenants : CheckFailoverConditions(q, t)
    \/ FailoverReturn

SpecCheck == InitCheck /\ [][NextCheck]_vars

(* ---- the failover primitives and the config operations ---------------- *)
(* config_data of a create: the queue, enabled, one threshold *)
CreateData == [queue_id : {1}, enabled : BOOLEAN, max_wait_time : Thresholds]

(* config_data of an update: a dictionary with one key *)
UpdateData ==
    {<< <<"enabled", b>> >> : b \in BOOLEAN} \cup
    {<< <<"active", b>> >> : b \in BOOLEAN} \cup
    {<< <<"max_wait_time", v>> >> : v \in Thresholds}

InitFailover ==
    /\ InitDistributionQuiet
    /\ InitPipelineEmpty
    /\ InitServicesEmpty
    /\ failover_configs = [c \in ConfigIds |-> NoFailoverRow]
    /\ metrics_rows = [q \in QueueIds |->
                         IF q = 1 THEN MetricsRow("t1", MaxLevel, MaxLevel, 0, 0) ELSE NoMetricsRow]
    /\ failover_result = FailoverIdle

(* the clock is cut off at MaxClock *)
NextFailover ==
    \/ \E d \in CreateData : CreateFailoverConfig("t1", d)
    \/ \E c \in ConfigIds, t \in Tenants, d \in UpdateData : UpdateFailoverConfig(c, t, d)
    \/ \E c \in ConfigIds, t \in Tenants : Now <= MaxClock /\ ActivateFailover(c, t)
    \/ \E c \in ConfigIds, t \in Tenants : Now <= MaxClock /\ DeactivateFailover(c, t)
    \/ CheckFailoverConditions(1, "t1")
    \/ FailoverReturn

SpecFailover == InitFailover /\ [][NextFailover]_vars

(* ---- the event pipeline ------------------------------------------------ *)
InitEvents ==
    /\ InitDistributionQuiet
    /\ InitReliabilityEmpty
    /\ InitPipelineEmpty
    /\ InitServicesEmpty

(* the events recorded so far of one call, and where they leave the call *)
CallIds == 1..MaxCallIds

CallEvents(c) == SelectSeq(events, LAMBDA e : e.event_type = "call" /\ e.call_id = c)

CallState(c) == IF Len(CallEvents(c)) = 0 THEN "none" ELSE CallEvents(c)[Len(CallEvents(c))].event_name

CallQueue(c) == CallEvents(c)[1].queue_id

(* call events as the call-control side sends them: entered, then answered by
   an agent or abandoned; any number of record_event calls run side by side *)
NextCalls ==
    \/ \E r \in Recorders, c \in CallIds, q \in {1, 2} :
          /\ CallState(c) = "none"
          /\ RecordEvent(r, queues[q].tenant_uuid, "call", "call_entered", EventData(q, None, c, ""))
    \/ \E r \in Recorders, c \in CallIds, a \in EventAgents :
          /\ CallState(c) = "call_entered"
          /\ RecordEvent(r, queues[CallQueue(c)].tenant_uuid, "call", "call_answered",
                         EventData(CallQueue(c), a, c, ""))
    \/ \E r \in Recorders, c \in CallIds :
          /\ CallState(c) = "call_entered"
          /\ RecordEvent(r, queues[CallQueue(c)].tenant_uuid, "call", "call_abandoned",
                         EventData(CallQueue(c), None, c, ""))
    \/ \E r \in Recorders : UpdateMetrics(r)
    \/ \E r \in Recorders : PublishEvent(r)
    \/ \E r \in Recorders : RecordEventReturn(r)

SpecCalls == InitEvents /\ [][NextCalls]_vars

(* the events recorded so far of one agent, and the state they leave the agent in *)
AgentEvents(a) == SelectSeq(events, LAMBDA e : e.event_type = "agent" /\ e.agent_id = a)

AgentState(a) ==
    LET es == AgentEvents(a)
    IN  IF Len(es) = 0 THEN "logged_out" ELSE es[Len(es)].state

(* a record_event call for this agent has not returned yet *)
Busy(a) == \E r \in Recorders : recorder[r].pc \in {"metrics", "publish"} /\ recorder[r].event.agent_id = a

(* agent events as the agents' side sends them: one agent's events one after
   the other along logged_out -> available -> {on_call, paused} -> available
   -> logged_out, different agents' events side by side *)
NextAgents ==
    \/ \E r \in Recorders, a \in EventAgents :
          /\ ~Busy(a) /\ AgentState(a) = "logged_out"
          /\ RecordEvent(r, "t1", "agent", "agent_login", EventData(1, a, None, "available"))
    \/ \E r \in Recorders, a \in EventAgents, st \in {"on_call", "paused"} :
          /\ ~Busy(a) /\ AgentState(a) = "available"
          /\ RecordEvent(r, "t1", "agent", "agent_state_change", EventData(1, a, None, st))
    \/ \E r \in Recorders, a \in EventAgents :
          /\ ~Busy(a) /\ AgentState(a) \in {"on_call", "paused"}
          /\ RecordEvent(r, "t1", "agent", "agent_state_change", EventData(1, a, None, "available"))
    \/ \E r \in Recorders, a \in EventAgents :
          /\ ~Busy(a) /\ AgentState(a) = "available"
          /\ RecordEvent(r, "t1", "agent", "agent_logout", EventData(1, a, None, "logged_out"))
    \/ \E r \in Recorders : UpdateMetrics(r)
    \/ \E r \in Recorders : PublishEvent(r)
    \/ \E r \in Recorders : RecordEventReturn(r)

SpecAgents == InitEvents /\ [][NextAgents]_vars

(* ---- record_event with failing commits and failing Redis commands ------ *)
(* the record_event calls tried: a call event of a queue and an agent, an
   agent event with no queue, a system event of the other tenant with neither *)
EventInputs ==
    {<<"t1", "call", "call_entered", EventData(1, agent_id(1), 1, "")>>,
     <<"t1", "agent", "agent_login", EventData(None, agent_id(1), None, "available")>>,
     <<"t2", "system", "restart", EventData(None, None, None, "")>>}

NextPublish ==
    \/ \E r \in Recorders, i \in EventInputs : RecordEvent(r, i[1], i[2], i[3], i[4])
    \/ \E r \in Recorders, i \in EventInputs : CommitFails(r, i[1], i[2], i[3], i[4])
    \/ \E r \in Recorders : UpdateMetrics(r)
    \/ \E r \in Recorders : UpdateMetricsFails(r)
    \/ \E r \in Recorders : PublishEvent(r)
    \/ \E r \in Recorders : PublishFails(r)
    \/ \E r \in Recorders : RecordEventReturn(r)

SpecPublish == InitEvents /\ [][NextPublish]_vars

(* ---- QueueService on an empty database, then distribution -------------- *)
(* no queue row and no member row: queue_id 0 stands for an id with no row *)
InitQueueService ==
    /\ queues = [q \in QueueIds |-> [exists |-> FALSE, tenant_uuid |-> "t1", strategy |-> "ringall"]]
    /\ members = [m \in AllMembers |-> NewMember(0, 0)]
    /\ row_order = <<ForeignMember>> \o Ascending
    /\ redis = [q \in QueueIds |-> Missing]
    /\ proc = [p \in Procs |-> IdleProc]
    /\ result = Idle
    /\ stats_calls = [a \in AgentIds |-> [calls |-> 0, talk_time |-> 0, last_call |-> 0]]
    /\ distribution_log = <<>>
    /\ InitReliabilityEmpty
    /\ InitPipelineEmpty
    /\ overflow = [q \in QueueIds |-> None]
    /\ foreign_keys \in BOOLEAN
    /\ queue_seq = 0
    /\ queue_result = QueueIdle
    /\ reader = IdleReader
    /\ InitOutreachEmpty

(* the queue_data dictionaries tried: any subset of the keys strategy and
   overflow_queue_id, a registered or an unregistered strategy name *)
StrategyNames == {"ringall", "rrmemory", UnregisteredStrategy}

QueueData ==
    {<<>>}
    \cup {[strategy |-> s] : s \in StrategyNames}
    \cup {[overflow_queue_id |-> o] : o \in {None} \cup QueueIds}
    \cup {[strategy |-> s, overflow_queue_id |-> o] : s \in StrategyNames, o \in {None} \cup QueueIds}

NextQueueService ==
    \/ \E t \in Tenants, d \in QueueData : CreateQueue(t, d)
    \/ \E q \in QueueIds, t \in Tenants, d \in QueueData : UpdateQueue(q, t, d)
    \/ \E q \in QueueIds, t \in Tenants : DeleteQueue(q, t)
    \/ \E q \in QueueIds, t \in Tenants, o \in {None, 0} \cup QueueIds : UpdateOverflowSettings(q, t, o)
    \/ QueueReturn
    \/ \E q \in QueueIds, t \in Tenants : queue_result = QueueIdle /\ GetNextAgentsFail(1, q, t)
    \/ \E q \in QueueIds, t \in Tenants : queue_result = QueueIdle /\ GetNextAgents(1, q, t)
    \/ \E q \in QueueIds, t \in Tenants : queue_result = QueueIdle /\ RRRead(1, q, t)
    \/ queue_result = QueueIdle /\ Return

SpecQueueService == InitQueueService /\ [][NextQueueService]_vars

(* ---- selection and stats reads under every strategy -------------------- *)
NextSelection ==
    \/ \E t \in Tenants : GetNextAgentsFail(1, 1, t)
    \/ \E t \in Tenants : GetNextAgents(1, 1, t)
    \/ \E t \in Tenants : RRRead(1, 1, t)
    \/ RRWrite(1)
    \/ \E q \in {1, MissingQueue}, m \in MemberIds : GetAgentStats(1, q, agent_id(m))
    \/ Return
    \/ \E m \in MemberIds, b \in BOOLEAN : SetAvailable(m, b)

SpecSelection == Init /\ [][NextSelection]_vars

(* ---- check_failover_conditions with unset thresholds and any queue id -- *)
(* a threshold column: null, 0, or the highest level *)
UnsetOrSet == {None, 0, MaxLevel}

OtherConfigs ==
    {NoFailoverRow,
     FailoverRow("t1", 2, TRUE, MaxLevel, MaxLevel, MaxLevel, MaxLevel),
     FailoverRow("t2", 1, TRUE, MaxLevel, MaxLevel, MaxLevel, MaxLevel)}

InitCheckUnset ==
    /\ InitDistributionQuiet
    /\ InitPipelineEmpty
    /\ InitServicesEmpty
    /\ \E en \in BOOLEAN, th \in [1..4 -> UnsetOrSet], second \in OtherConfigs :
          failover_configs = [c \in ConfigIds |->
                                IF c = 1 THEN FailoverRow("t1", 1, en, th[1], th[2], th[3], th[4])
                                ELSE second]
    /\ \E snapshot \in Snapshots :
          metrics_rows = [q \in QueueIds |->
                            IF q = 1 THEN snapshot
                            ELSE IF q = 2 THEN MetricsRow("t2", MaxLevel, MaxLevel, 0, 0)
                            ELSE NoMetricsRow]
    /\ failover_result = FailoverIdle

NextCheckUnset ==
    \/ \E q \in {0, 1, 2}, t \in Tenants : CheckFailoverConditions(q, t)
    \/ FailoverReturn

SpecCheckUnset == InitCheckUnset /\ [][NextCheckUnset]_vars

(* ---- real-time reads of a queue while its call events are recorded ----- *)
NextRealtime ==
    \/ \E r \in Recorders, c \in CallIds :
          /\ CallState(c) = "none"
          /\ RecordEvent(r, "t1", "call", "call_entered", EventData(1, None, c, ""))
    \/ \E r \in Recorders, c \in CallIds :
          /\ CallState(c) = "call_entered"
          /\ RecordEvent(r, "t1", "call", "call_abandoned", EventData(1, None, c, ""))
    \/ \E r \in Recorders : UpdateMetrics(r)
    \/ \E r \in Recorders : PublishEvent(r)
    \/ \E r \in Recorders : RecordEventReturn(r)
    \/ \E q \in {1, MissingQueue}, t \in Tenants : GetRealtimeQueueMetrics(q, t)
    \/ InitializeQueueMetrics
    \/ ReaderReturn

SpecRealtime == InitEvents /\ [][NextRealtime]_vars

(* ---- events in any order, one record_event call at a time -------------- *)
(* events that need not follow a call's or an agent's state machine *)
UnorderedInputs ==
    {<<"call", n, EventData(1, None, c, "")>> : n \in {"call_entered", "call_abandoned"}, c \in CallIds}
    \cup {<<"call", "call_answered", EventData(1, agent_id(1), c, "")>> : c \in CallIds}
    \cup {<<"agent", "agent_login", EventData(q, agent_id(1), None, "available")>> : q \in {1, 2}}
    \cup {<<"agent", "agent_logout", EventData(q, agent_id(1), None, "logged_out")>> : q \in {1, 2}}

NextUnordered ==
    \/ \E i \in UnorderedInputs : RecordEvent(1, "t1", i[1], i[2], i[3])
    \/ UpdateMetrics(1)
    \/ PublishEvent(1)
    \/ RecordEventReturn(1)

SpecUnordered == InitEvents /\ [][NextUnordered]_vars

(* ---- the distribution routes as a caller of one tenant uses them ------- *)
(* api/distribution.py: the stats routes read the caller's tenant from the
   token and call the service without it *)
ApiGetAgentStats(p, tenant_uuid, queue_id, agent) == GetAgentStats(p, queue_id, agent)

ApiUpdateAgentStats(p, tenant_uuid, queue_id, agent, call_duration) ==
    UpdateAgentStatsLogged(p, queue_id, agent, call_duration)

NextTenants ==
    \/ \E q \in QueueIds, t \in Tenants : GetNextAgentsFail(1, q, t)
    \/ \E q \in QueueIds, t \in Tenants : GetNextAgents(1, q, t)
    \/ \E q \in QueueIds, t \in Tenants : RRRead(1, q, t)
    \/ RRWrite(1)
    \/ \E q \in QueueIds, t \in Tenants, m \in {1, ForeignMember} : ApiGetAgentStats(1, t, q, agent_id(m))
    \/ \E q \in QueueIds, t \in Tenants, m \in {1, ForeignMember} : ApiUpdateAgentStats(1, t, q, agent_id(m), 1)
    \/ Return

SpecTenants == Init /\ [][NextTenants]_vars

(* ---- webhook deliveries: an event is triggered once, retries run ------- *)
InitWebhooks ==
    /\ InitDistributionQuiet
    /\ InitReliabilityEmpty
    /\ InitPipelineEmpty
    /\ InitManagementEmpty
    /\ reader = IdleReader
    /\ InitCallbacksEmpty
    /\ webhook \in {WebhookRow(en, re, ma, ri) :
                      en \in BOOLEAN, re \in BOOLEAN, ma \in 1..MaxAttempts, ri \in 1..MaxInterval}
    /\ deliveries = <<>>
    /\ webhook_result = NoDelivery
    /\ utcnow = 0

(* every event is triggered at most once *)
NextWebhooks ==
    \/ \E ty \in EventTypes, e \in WebhookEvents, ok \in BOOLEAN :
          /\ \A i \in 1..Len(deliveries) : deliveries[i].event_id # e
          /\ TriggerWebhook(ty, e, ok)
    \/ \E oks \in [1..MaxDeliveries -> BOOLEAN] : ProcessPendingRetries(oks)
    \/ Tick

SpecWebhooks == InitWebhooks /\ [][NextWebhooks]_vars

(* ---- callback requests through their lifecycle ------------------------- *)
Schedules == {NoSchedule} \cup {Schedule(ma, eh) : ma \in 1..MaxAttempts, eh \in 1..MaxInterval}

(* an agent of tenant t1 and an id no agent has *)
CallbackAgents == {agent_id(1), 0}

InitCallbacks ==
    /\ InitDistributionQuiet
    /\ InitReliabilityEmpty
    /\ InitPipelineEmpty
    /\ InitManagementEmpty
    /\ reader = IdleReader
    /\ InitWebhookEmpty
    /\ callback_requests = [r \in RequestIds |-> NoRequest]
    /\ callback_result = CallbackIdle
    /\ callback_schedule \in Schedules

NextCallbacks ==
    \/ \E t \in Tenants, q \in {1, 2} : CreateCallbackRequest(t, q)
    \/ \E r \in RequestIds, a \in CallbackAgents, t \in Tenants : AssignCallbackRequest(r, a, t)
    \/ \E r \in RequestIds, t \in Tenants : StartCallback(r, agent_id(1), t)
    \/ \E r \in RequestIds, t \in Tenants : CompleteCallback(r, agent_id(1), t, "success")
    \/ \E r \in RequestIds, t \in Tenants, retry \in BOOLEAN : FailCallback(r, t, "no_answer", retry)
    \/ \E r \in RequestIds, t \in Tenants : CancelCallback(r, t)
    \/ \E t \in Tenants : ProcessExpiredCallbacks(t)
    \/ Tick

SpecCallbacks == InitCallbacks /\ [][NextCallbacks]_vars

(* ======================================================================= *)
(* Properties                                                              *)
(* ======================================================================= *)
(* stated on the registry columns, not on the model's helpers *)
Candidate(q, m) ==
    members[m].queue_id = q /\ members[m].is_available /\ ~members[m].paused

Candidates(q) == {m \in AllMembers : Candidate(q, m)}

MinTier(q) == {m \in Candidates(q) : \A n \in Candidates(q) : members[m].penalty <= members[n].penalty}

Returned == {MemberOfAgent(result.agents[i]) : i \in 1..Len(result.agents)}

Selected == result.kind \in {"agent", "list"}

Answered == result.kind \in {"None", "agent", "list"}

(* a request that reads the registry and returns in one step has just returned *)
ReturnsAtOnce(p) ==
    proc[p].pc = "idle" /\ proc'[p].pc = "idle" /\ result = Idle /\ result' # Idle /\ result'.proc = p

(* an rrmemory request has just read the registry *)
ReadsRegistry(p) == proc[p].pc = "idle" /\ proc'[p].pc = "rr_set"

(* an rrmemory request has just returned *)
ReturnsFromRead(p) == proc[p].pc = "rr_set" /\ proc'[p].pc = "idle"

ReturnedNext == {MemberOfAgent(result'.agents[i]) : i \in 1..Len(result'.agents)}

(* C1: whatever the strategy, every member whose agent get_next_agent returns
   has the minimum penalty among the queue's available, unpaused members as
   the request read them; no higher tier is served while a lower one has an
   eligible member. *)
C1_MinPenaltyTier ==
    [][\A p \in Procs :
        /\ ReturnsAtOnce(p) => ReturnedNext \subseteq MinTier(result'.queue_id)
        /\ ReadsRegistry(p) => proc'[p].selected_member \in MinTier(proc'[p].queue_id)
        /\ ReturnsFromRead(p) => ReturnedNext = {proc[p].selected_member}]_vars

C1_Witness ==
    /\ Selected
    /\ \E m \in Candidates(result.queue_id), r \in Returned : members[m].penalty > members[r].penalty

(* C2: no strategy returns the agent of a member that was unavailable or
   paused when the request read the registry; a member paused or logged out
   before a request starts is not a candidate of that request. *)
C2_OnlyEligible ==
    [][\A p \in Procs :
        /\ ReturnsAtOnce(p) =>
              \A m \in ReturnedNext : members[m].is_available /\ ~members[m].paused
        /\ ReadsRegistry(p) =>
              LET m == proc'[p].selected_member
              IN  members[m].queue_id = proc'[p].queue_id /\ members[m].is_available /\ ~members[m].paused
        /\ ReturnsFromRead(p) =>
              \A m \in ReturnedNext : m = proc[p].selected_member]_vars

C2_Witness ==
    /\ Selected
    /\ \E m \in MemberIds, r \in Returned :
          /\ members[m].paused
          /\ members[m].penalty < members[r].penalty

(* C3: ringall returns a list holding the agent of each eligible member of
   the minimum-penalty tier, once, and of no other member. *)
C3_RingAllWholeTier ==
    (result # Idle /\ Answered /\ StrategyOf(result.queue_id) = "ringall" /\ Candidates(result.queue_id) # {})
        => /\ result.kind = "list"
           /\ Returned = MinTier(result.queue_id)
           /\ Len(result.agents) = Cardinality(MinTier(result.queue_id))

C3_Witness ==
    /\ result.kind = "list"
    /\ Cardinality(Returned) >= 2
    /\ Candidates(result.queue_id) \ Returned # {}

(* C4: with no available, unpaused member in the queue, every strategy
   answers None (an empty list would do for ringall) and raises nothing. *)
C4_NoCandidatesNone ==
    [][\A p \in Procs :
        /\ (ReturnsAtOnce(p)
              /\ result'.kind \notin {"QueueNotFound", "InvalidQueueStrategy"}
              /\ Candidates(result'.queue_id) = {})
            => \/ result'.kind = "None" /\ result'.agents = <<>>
               \/ /\ StrategyOf(result'.queue_id) = "ringall"
                  /\ result'.kind = "list" /\ result'.agents = <<>>
        /\ ReadsRegistry(p) => Candidates(proc'[p].queue_id) # {}]_vars

C4_Witness ==
    /\ result.kind = "None"
    /\ result.queue_id = 1
    /\ \A m \in MemberIds : ~members[m].is_available \/ members[m].paused

(* ---- rrmemory ---------------------------------------------------------- *)
(* the tier of queue 1 as rrmemory lists it: table order, stable by penalty *)
Tier1 == LET ms == SelectSeq(row_order, LAMBDA m : Candidate(1, m))
             low == SelectSeq(ms, LAMBDA m : \A n \in Range(ms) : members[m].penalty <= members[n].penalty)
         IN  low

Cursor1 == IF redis[1].exists THEN ParseInt(redis[1].value) ELSE -1

Occurrences(s, x) == Cardinality({i \in 1..Len(s) : s[i] = x})

(* C5: over an unchanged tier of two or more members, two rrmemory requests
   for one queue that have both read the cursor and not yet written it back
   hold different positions, so they are assigned different members. *)
C5_CursorAdvanceAtomic ==
    \A p, q \in Procs :
        (p # q /\ proc[p].pc = "rr_set" /\ proc[q].pc = "rr_set"
           /\ proc[p].queue_id = proc[q].queue_id /\ Len(Tier1) >= 2)
        => /\ proc[p].next_position # proc[q].next_position
           /\ proc[p].selected_member # proc[q].selected_member

(* C7: with one request at a time and an unchanging registry, each rrmemory
   request moves the stored cursor from c (-1 when none is stored) to
   (c + 1) mod M and returns the tier member at it; so the k-th request
   returns tier[(c + k) mod M], consecutive M requests return M different
   members, and over N requests every tier member is returned N \div M or
   N \div M + 1 times. *)
C7_Walk ==
    LET n == Len(distribution_log)
        M == Len(Tier1)
    IN  n > 0 =>
          /\ \A k \in 1..n :
                distribution_log[k] = agent_id(Tier1[((Cursor1 - (n - k)) % M) + 1])
          /\ \A i, j \in 1..n : (i < j /\ j - i < M) => distribution_log[i] # distribution_log[j]
          /\ \A m \in Range(Tier1) :
                Occurrences(distribution_log, agent_id(m)) \in {n \div M, (n \div M) + 1}

C7_RoundRobin ==
    [][\A p \in Procs :
         ReturnsFromRead(p) =>
            /\ Cursor1' = (Cursor1 + 1) % Len(Tier1)
            /\ result'.agents = <<agent_id(Tier1[Cursor1' + 1])>>
            /\ C7_Walk']_vars

C7_Witness ==
    /\ Len(Tier1) = 3
    /\ Len(distribution_log) = 4
    /\ distribution_log = <<agent_id(Tier1[1]), agent_id(Tier1[2]), agent_id(Tier1[3]), agent_id(Tier1[1])>>

(* ---- statistics -------------------------------------------------------- *)
(* C6: get_stats reports as calls_taken the number of update_stats calls made
   for the member and as total_talk_time the sum of their durations. *)
C6_NoLostUpdate ==
    result.kind = "stats" =>
        /\ result.stats.calls_taken = stats_calls[result.agents[1]].calls
        /\ result.stats.total_talk_time = stats_calls[result.agents[1]].talk_time

CallsTakenRead(a) == get_member_stats(MemberOfAgent(a)).calls_taken

(* C8: an update_stats for a member that get_next_agent has selected makes
   the calls_taken the strategy reads for it strictly greater. *)
C8_UpdateRaisesCallsTaken ==
    [][\A a \in AgentIds :
         (result = Idle /\ result'.kind = "updated" /\ result'.agents = <<a>>
            /\ a \in Range(distribution_log))
         => CallsTakenRead(a)' > CallsTakenRead(a)]_vars

(* C9: fewestcalls returns a member whose recorded calls_taken is the
   smallest in the minimum-penalty tier. *)
C9_FewestCallsInTier ==
    (result.kind = "agent" /\ StrategyOf(result.queue_id) = "fewestcalls")
        => \A n \in MinTier(result.queue_id) :
              stats_calls[result.agents[1]].calls <= stats_calls[agent_id(n)].calls

(* C10: leastrecent returns the tier member whose last call is the oldest,
   a member never called coming before every member that was called. *)
C10_LeastRecentInTier ==
    (result.kind = "agent" /\ StrategyOf(result.queue_id) = "leastrecent")
        => \A n \in MinTier(result.queue_id) :
              stats_calls[result.agents[1]].last_call <= stats_calls[agent_id(n)].last_call

(* ---- linear ------------------------------------------------------------ *)
LeastId(S) == CHOOSE m \in S : \A n \in S : m <= n

(* C11: linear returns the agent of the member with the smallest id in the
   minimum-penalty tier of the eligible members, whatever the order in which
   the registry lists the rows and whatever was returned before. *)
C11_LinearSmallestId ==
    (result.kind = "agent" /\ StrategyOf(result.queue_id) = "linear")
        => Returned = {LeastId(MinTier(result.queue_id))}

C11_Witness ==
    /\ result.kind = "agent"
    /\ StrategyOf(result.queue_id) = "linear"
    /\ \E i, j \in 1..Len(row_order) :
          i < j /\ row_order[i] \in MinTier(result.queue_id) /\ row_order[j] \in Returned
    /\ \E m \in Candidates(result.queue_id), r \in Returned : m < r

(* ---- dispatch ---------------------------------------------------------- *)
(* the queue row with this id is there and belongs to this tenant *)
Owned(q, t) == queues[q].exists /\ queues[q].tenant_uuid = t

(* a step in which get_next_agents(q, t) starts: it is rejected, answered at
   once, or (rrmemory) has read the registry and the cursor *)
Requested(p, q, t) ==
    \/ GetNextAgentsFail(p, q, t)
    \/ GetNextAgents(p, q, t)
    \/ RRRead(p, q, t)

(* C12: get_next_agents(queue_id, tenant) raises QueueNotFound when the tenant
   has no queue with that id, also when a queue with that id exists elsewhere
   or names an unregistered strategy; raises InvalidQueueStrategy when the
   tenant's queue names a strategy with no registered engine; hands the call
   to the strategy only otherwise; a rejection changes no stored state. *)
C12_Dispatch ==
    [][\A p \in Procs, q \in QueueIds, t \in Tenants :
         Requested(p, q, t) =>
            /\ ~Owned(q, t) => result'.kind = "QueueNotFound"
            /\ (Owned(q, t) /\ queues[q].strategy \notin STRATEGY_MAPPING)
                  => result'.kind = "InvalidQueueStrategy"
            /\ (Owned(q, t) /\ queues[q].strategy \in STRATEGY_MAPPING)
                  => \/ result' # Idle /\ result'.kind \in {"None", "agent", "list"}
                     \/ result' = Idle /\ proc'[p].pc = "rr_set"
            /\ (result' # Idle /\ result'.kind \in {"QueueNotFound", "InvalidQueueStrategy"})
                  => /\ result'.agents = <<>>
                     /\ UNCHANGED <<reliability, pipeline, services, queues, members, row_order, redis, proc, stats_calls, distribution_log>>]_vars

C12_Witness ==
    /\ result.kind = "QueueNotFound"
    /\ queues[result.queue_id].exists
    /\ queues[result.queue_id].strategy \notin STRATEGY_MAPPING

(* ---- failover ---------------------------------------------------------- *)
ThresholdOrder == <<"Queue size", "Wait time", "Service level", "Available agents">>

Configured(x) == x # None /\ x > 0

(* the k-th threshold of the fixed order is configured and the snapshot breaches it *)
Breach(c, m, k) ==
    CASE k = 1 -> Configured(c.max_queue_size) /\ m.calls_waiting >= c.max_queue_size
      [] k = 2 -> Configured(c.max_wait_time) /\ m.longest_wait >= c.max_wait_time
      [] k = 3 -> Configured(c.service_level_threshold) /\ m.service_level < c.service_level_threshold
      [] k = 4 -> Configured(c.agent_availability_threshold) /\ m.agents_available < c.agent_availability_threshold

(* C13: check_conditions reports a config at most once, each reason cites the
   first threshold of the order queue size, wait time, service level, agent
   availability that the latest snapshot breaches; a snapshot breaching both
   wait time and service level (and not queue size) of an enabled config of
   the queue gives exactly one tuple for it, citing wait time. *)
C13_FirstBreachOnly ==
    failover_result.kind = "triggered" =>
        LET tr == failover_result.triggered
            q == failover_result.queue_id
            t == failover_result.tenant_uuid
            m == metrics_rows[q]
        IN  /\ \A i, j \in 1..Len(tr) : i # j => tr[i].config # tr[j].config
            /\ \A i \in 1..Len(tr) :
                  \E k \in 1..4 :
                     /\ tr[i].reason.cites = ThresholdOrder[k]
                     /\ Breach(failover_configs[tr[i].config], m, k)
                     /\ \A j \in 1..(k - 1) : ~Breach(failover_configs[tr[i].config], m, j)
            /\ \A c \in ConfigIds :
                  (/\ failover_configs[c].exists /\ failover_configs[c].enabled
                   /\ failover_configs[c].queue_id = q /\ failover_configs[c].tenant_uuid = t
                   /\ m.exists /\ m.tenant_uuid = t
                   /\ ~Breach(failover_configs[c], m, 1)
                   /\ Breach(failover_configs[c], m, 2) /\ Breach(failover_configs[c], m, 3))
                  => /\ Cardinality({i \in 1..Len(tr) : tr[i].config = c}) = 1
                     /\ \A i \in 1..Len(tr) : tr[i].config = c => tr[i].reason.cites = "Wait time"

C13_Witness ==
    /\ failover_result.kind = "triggered"
    /\ Len(failover_result.triggered) = 2
    /\ failover_result.triggered[1].config = 1
    /\ failover_result.triggered[1].reason.cites = "Wait time"
    /\ Breach(failover_configs[1], metrics_rows[1], 2)
    /\ Breach(failover_configs[1], metrics_rows[1], 3)

(* the response a ReliabilityService call has just produced *)
Responded == failover_result = FailoverIdle /\ failover_result' # FailoverIdle

(* C14: activate is accepted exactly for a config of the tenant that exists
   and is enabled, and then sets active; rejected on a disabled config with
   the error of an invalid state, active and last_activation kept; deactivate
   is accepted for every existing config, enabled or not, active or not, and
   leaves active false. *)
C14_ActivateNeedsEnabled ==
    [][Responded =>
         LET r == failover_result'
             c == r.config
             row == failover_configs[c]
             mine == row.exists /\ row.tenant_uuid = r.tenant_uuid
         IN  /\ r.op = "activate_failover" =>
                   /\ (r.kind = "config") <=> (mine /\ row.enabled)
                   /\ r.kind = "config" =>
                         /\ failover_configs'[c].active
                         /\ failover_configs'[c].last_activation > row.last_activation
                         /\ failover_configs'[c].last_activation > row.last_recovery
                   /\ r.kind # "config" => r.kind = "ValueError" /\ UNCHANGED failover_configs
                   /\ (mine /\ ~row.enabled) =>
                         /\ r.message = "Failover config is disabled"
                         /\ failover_configs'[c].active = row.active
                         /\ failover_configs'[c].last_activation = row.last_activation
             /\ r.op = "deactivate_failover" =>
                   /\ (r.kind = "config") <=> mine
                   /\ r.kind = "config" => ~failover_configs'[c].active
                   /\ r.kind # "config" => r.kind = "ValueError" /\ UNCHANGED failover_configs]_vars

C14_Witness ==
    /\ failover_result.op = "activate_failover"
    /\ failover_result.kind = "ValueError"
    /\ failover_result.message = "Failover config is disabled"
    /\ failover_configs[failover_result.config].active

(* C15: the active flag of a config goes from true to false only in a
   deactivate step on that config. *)
C15_ClearedOnlyByDeactivate ==
    [][\A c \in ConfigIds :
         (failover_configs[c].active /\ ~failover_configs'[c].active)
         => /\ failover_result'.op = "deactivate_failover"
            /\ failover_result'.kind = "config"
            /\ failover_result'.config = c]_vars

(* ---- event pipeline ---------------------------------------------------- *)
(* no record_event call is between its commit and its return *)
Quiescent == \A r \in Recorders : recorder[r].pc \in {"idle", "returned"}

(* the recorded call events of one name for a queue *)
CallEventCount(name, q) ==
    Cardinality({i \in 1..Len(events) :
                    /\ events[i].event_type = "call"
                    /\ events[i].event_name = name
                    /\ events[i].queue_id = q})

AnsweredBy(a) ==
    Cardinality({i \in 1..Len(events) :
                    /\ events[i].event_type = "call"
                    /\ events[i].event_name = "call_answered"
                    /\ events[i].agent_id = a})

(* C16: once the record_event calls for a queue's call events have returned,
   in whatever order their Redis commands ran, calls_waiting is the number of
   calls entered and neither answered nor abandoned, answered_calls and
   abandoned_calls are the numbers of those events, every call_answered has
   added one to its agent's calls_taken, and a queue's counters count its own
   events only. *)
C16_CallCounters ==
    Quiescent =>
        /\ \A q \in QueueIds :
              /\ queue_metrics[q].calls_waiting =
                    Cardinality({c \in CallIds : CallState(c) = "call_entered" /\ CallQueue(c) = q})
              /\ queue_metrics[q].calls_waiting =
                    CallEventCount("call_entered", q) - CallEventCount("call_answered", q)
                        - CallEventCount("call_abandoned", q)
              /\ queue_metrics[q].answered_calls = CallEventCount("call_answered", q)
              /\ queue_metrics[q].abandoned_calls = CallEventCount("call_abandoned", q)
        /\ \A a \in EventAgents : agent_metrics[a].calls_taken = AnsweredBy(a)

C16_Witness ==
    /\ Quiescent
    /\ queue_metrics[1].calls_waiting = 1
    /\ queue_metrics[1].answered_calls = 1
    /\ queue_metrics[2].calls_waiting = 0
    /\ queue_metrics[2].abandoned_calls = 0
    /\ \E a \in EventAgents : agent_metrics[a].calls_taken = 1

(* the logged-in agents of queue 1 that the recorded events leave in a state *)
AgentsIn(state) == Cardinality({a \in EventAgents : AgentState(a) = state})

(* C17: whenever the record_event calls for agent events have returned, the
   queue's agents_available, agents_on_call and agents_paused add up to its
   agents_logged. *)
C17_CountersSum ==
    Quiescent =>
        \A q \in QueueIds :
            queue_metrics[q].agents_available + queue_metrics[q].agents_on_call
                + queue_metrics[q].agents_paused = queue_metrics[q].agents_logged

(* the same sum required of every state, the ones between the two hincrby
   commands of a login or a logout included *)
C17_CountersSumEveryState ==
    \A q \in QueueIds :
        queue_metrics[q].agents_available + queue_metrics[q].agents_on_call
            + queue_metrics[q].agents_paused = queue_metrics[q].agents_logged

C17_Witness ==
    /\ Quiescent
    /\ queue_metrics[1].agents_logged = 1
    /\ \E a, b \in EventAgents :
          /\ AgentState(a) = "logged_out" /\ Len(AgentEvents(a)) >= 2
          /\ AgentState(b) # "logged_out"

(* C18: whenever the record_event calls for agent events have returned, each
   per-state counter of the queue is the number of logged-in agents in that
   state, and each agent's recorded current_state is the state its last event
   left it in (logged out after a logout). *)
C18_CountersFollowStates ==
    Quiescent =>
        /\ queue_metrics[1].agents_available = AgentsIn("available")
        /\ queue_metrics[1].agents_on_call = AgentsIn("on_call")
        /\ queue_metrics[1].agents_paused = AgentsIn("paused")
        /\ \A a \in EventAgents :
              Len(AgentEvents(a)) > 0 => agent_metrics[a].current_state = AgentState(a)

(* the channels an event belongs on: its tenant's, its queue's and its agent's *)
OwnChannels(e) ==
    {<<"events:tenant", e.tenant_uuid>>}
    \cup (IF e.queue_id # None THEN {<<"events:queue", e.queue_id>>} ELSE {})
    \cup (IF e.agent_id # None THEN {<<"events:agent", e.agent_id>>} ELSE {})

(* C19: a publish is made only for an event whose row is already in the event
   store, and no step takes a row out of the store or alters one, whether the
   commit, a metrics command or a publish fails. *)
C19_RecordThenPublish ==
    [][/\ Len(events') >= Len(events)
       /\ SubSeq(events', 1, Len(events)) = events
       /\ \A c \in Channels \X EventIds :
             channels'[c] > channels[c]
             => /\ c[2] \in 1..Len(events)
                /\ \E r \in Recorders : recorder[r].event = events[c[2]]]_vars

C19_Witness ==
    \E r \in Recorders :
        LET e == recorder[r].event
        IN  /\ recorder[r].pc = "raised"
            /\ e.id \in 1..Len(events)
            /\ events[e.id] = e
            /\ e.queue_id # None
            /\ channels[<<<<"events:tenant", e.tenant_uuid>>, e.id>>] = 1
            /\ channels[<<<<"events:queue", e.queue_id>>, e.id>>] = 0

(* C20: when record_event returns, its event has been published once on each
   of its own channels (tenant; queue if it carries a queue_id; agent if it
   carries an agent_id) and on no other; and no event is ever published twice
   on a channel or on a channel that is not its own. *)
C20_PublishedOncePerChannel ==
    /\ \A r \in Recorders :
          recorder[r].pc = "returned" =>
             \A ch \in Channels :
                channels[<<ch, recorder[r].event.id>>] =
                    IF ch \in OwnChannels(recorder[r].event) THEN 1 ELSE 0
    /\ \A c \in Channels \X EventIds :
          /\ channels[c] <= 1
          /\ channels[c] > 0 => c[2] <= Len(events) /\ c[1] \in OwnChannels(events[c[2]])

C20_Witness ==
    /\ \E r \in Recorders :
          /\ recorder[r].pc = "returned"
          /\ recorder[r].event.queue_id = None
          /\ recorder[r].event.agent_id # None
          /\ channels[<<<<"events:agent", recorder[r].event.agent_id>>, recorder[r].event.id>>] = 1
    /\ \E i, j \in 1..Len(events) :
          /\ events[i].tenant_uuid # events[j].tenant_uuid
          /\ events[i].queue_id # None
          /\ channels[<<<<"events:queue", events[i].queue_id>>, i>>] = 1

(* the six strategy names of the queue model *)
KnownStrategies == {"ringall", "leastrecent", "fewestcalls", "random", "rrmemory", "linear"}

(* C21: every stored queue's strategy is one of the six known names; a create
   or update whose data names another strategy is refused (the update of a
   queue the caller's tenant does not have with QueueNotFound, every other
   with InvalidQueueStrategy) and changes no queue; and get_next_agents never
   answers InvalidQueueStrategy. *)
C21_StrategiesKnown ==
    /\ [](/\ \A q \in QueueIds : queues[q].exists => queues[q].strategy \in KnownStrategies
          /\ result.kind # "InvalidQueueStrategy")
    /\ [][/\ queue_result'.kind = "InvalidQueueStrategy" => UNCHANGED <<queues, overflow>>
          /\ queue_result = QueueIdle /\ queue_result'.op \in {"create", "update"}
               /\ queue_result'.strategy \notin KnownStrategies \cup {""}
             => /\ UNCHANGED <<queues, overflow>>
                /\ IF queue_result'.op = "update"
                      /\ ~QueueFound(queue_result'.queue_id, queue_result'.tenant_uuid)
                   THEN queue_result'.kind = "QueueNotFound"
                   ELSE queue_result'.kind = "InvalidQueueStrategy"]_vars

C21_Witness ==
    /\ queue_result.kind = "InvalidQueueStrategy"
    /\ queue_result.op = "update"
    /\ queue_result.strategy = UnregisteredStrategy
    /\ queues[queue_result.queue_id].strategy = "rrmemory"
    /\ redis[queue_result.queue_id] = Missing
    /\ \E q \in QueueIds : queues[q].exists /\ queues[q].strategy = "ringall"

(* C22: every stored overflow_queue_id is unset or names a queue that exists
   in the tenant of the queue holding it. *)
C22_OverflowInTenant ==
    \A q \in QueueIds :
        queues[q].exists /\ overflow[q] # None
        => /\ overflow[q] \in QueueIds
           /\ QueueFound(overflow[q], queues[q].tenant_uuid)

(* the strategies whose choice is not drawn at random and keeps no cursor *)
Memoryless == {"ringall", "leastrecent", "fewestcalls", "linear"}

(* a step in which a distribution request gets its answer *)
Answers == result = Idle /\ result' # Idle

(* C23: a get_agent_stats or get_next_agents step leaves the queues, the
   member registry and the member stats as they were; the only cursor a step
   writes is the cursor of its own queue, under rrmemory; and under ringall,
   leastrecent, fewestcalls and linear the registry admits exactly one answer,
   which is the one given. *)
C23_ReadsWriteNothing ==
    /\ [](\A s \in Memoryless : Cardinality(Select(s, 1)) = 1)
    /\ [][Answers =>
            /\ UNCHANGED <<queues, members, row_order, stats_calls, distribution_log>>
            /\ redis' # redis =>
                  /\ queues[result'.queue_id].strategy = "rrmemory"
                  /\ \A q \in QueueIds \ {result'.queue_id} : redis'[q] = redis[q]
            /\ result'.kind \in {"agent", "list", "None"} /\ StrategyOf(result'.queue_id) \in Memoryless
               => Select(StrategyOf(result'.queue_id), result'.queue_id) = {<<result'.kind, result'.agents>>}
            /\ result'.kind = "stats" => UNCHANGED redis /\ result'.stats = get_member_stats(result'.agents[1])]_vars

C23_Witness ==
    /\ result.kind = "agent"
    /\ StrategyOf(1) = "leastrecent"
    /\ redis[1] = Missing
    /\ \E m \in MemberIds : ~members[m].is_available
    /\ Len(get_available_members(1)) >= 2

(* the latest snapshot of queue q as tenant t sees it breaches a threshold of config c *)
Breaches(c, q, t) ==
    /\ q \in QueueIds
    /\ metrics_rows[q].exists
    /\ metrics_rows[q].tenant_uuid = t
    /\ \E k \in 1..4 : Breach(c, metrics_rows[q], k)

(* C24: check_conditions(queue_id) lists a config iff the config is a row of
   that queue and of the caller's tenant, is enabled, the queue has a
   snapshot, and the latest snapshot breaches one of the config's thresholds
   that is set (neither null nor 0). *)
C24_ReportedIffBreached ==
    failover_result.kind = "triggered" =>
        \A c \in ConfigIds :
            (\E i \in 1..Len(failover_result.triggered) : failover_result.triggered[i].config = c)
            <=> /\ failover_configs[c].exists
                /\ failover_configs[c].queue_id = failover_result.queue_id
                /\ failover_configs[c].tenant_uuid = failover_result.tenant_uuid
                /\ failover_configs[c].enabled
                /\ Breaches(failover_configs[c], failover_result.queue_id, failover_result.tenant_uuid)

C24_Witness ==
    /\ failover_result.kind = "triggered"
    /\ failover_result.queue_id = 1
    /\ failover_result.triggered = <<>>
    /\ failover_configs[1].enabled
    /\ failover_configs[1].max_queue_size = 0
    /\ failover_configs[1].max_wait_time = None
    /\ failover_configs[1].service_level_threshold = 0
    /\ failover_configs[1].agent_availability_threshold = MaxLevel
    /\ metrics_rows[1].exists
    /\ metrics_rows[1].agents_available = MaxLevel
    /\ failover_configs[2].exists

(* C25: once every record_event call and every get_realtime_queue_metrics
   call has finished, the call counters of each queue are the net effect of
   the recorded events. *)
C25_InitKeepsUpdates ==
    Quiescent /\ reader.pc # "initialize" =>
        \A q \in QueueIds :
            /\ queue_metrics[q].calls_waiting =
                  CallEventCount("call_entered", q) - CallEventCount("call_answered", q)
                      - CallEventCount("call_abandoned", q)
            /\ queue_metrics[q].abandoned_calls = CallEventCount("call_abandoned", q)

(* C26: no real-time counter of a queue is ever below zero. *)
C26_CountersNotNegative ==
    \A q \in QueueIds :
        /\ queue_metrics[q].calls_waiting >= 0
        /\ queue_metrics[q].agents_logged >= 0
        /\ queue_metrics[q].agents_available >= 0
        /\ queue_metrics[q].agents_on_call >= 0
        /\ queue_metrics[q].agents_paused >= 0

(* C27: a distribution request of tenant t for a queue that t does not own is
   answered QueueNotFound and changes nothing, whether the queue is missing
   or belongs to another tenant. *)
C27_TenantScoped ==
    [][\A q \in QueueIds, t \in Tenants :
         (/\ ~Owned(q, t)
          /\ \/ Requested(1, q, t)
             \/ \E m \in AllMembers : ApiGetAgentStats(1, t, q, agent_id(m))
             \/ \E m \in AllMembers : ApiUpdateAgentStats(1, t, q, agent_id(m), 1))
         => /\ result'.kind = "QueueNotFound"
            /\ UNCHANGED <<queues, members, row_order, redis, stats_calls, distribution_log>>]_vars

(* C28: a failover config that is active is enabled, in every state reached
   through create, update, activate and deactivate. *)
C28_ActiveImpliesEnabled ==
    \A c \in ConfigIds :
        (failover_configs[c].exists /\ failover_configs[c].active) => failover_configs[c].enabled

(* C29: the delivery records of one triggered event never number more than
   the webhook's retry_max_attempts, however often process_pending_retries
   runs. *)
C29_RetriesBounded ==
    \A e \in WebhookEvents :
        Cardinality({i \in 1..Len(deliveries) : deliveries[i].event_id = e}) <= webhook.retry_max_attempts

(* C30: a callback request whose status is completed, failed, expired or
   cancelled keeps that status through every CallbackService call. *)
C30_TerminalAbsorbing ==
    [][\A r \in RequestIds :
         (callback_requests[r].exists /\ callback_requests[r].status \in TerminalStatuses)
         => callback_requests'[r].status = callback_requests[r].status]_vars

====
